---- MODULE Spec2Model ----
(***************************************************************************)
(* ChinWag: the session store (zustand + persist), its import / export,   *)
(* the model registry that repairs session models, and the Chat           *)
(* component's streamed send turn.                                         *)
(*                                                                         *)
(* Text (names, prompts, notes, message contents, chunks) is a sequence   *)
(* of one-character strings, so that concatenation, emptiness and         *)
(* truthiness are those of JavaScript strings.  Session ids and model     *)
(* names are opaque strings.  A JavaScript object is a record whose       *)
(* DOMAIN is the set of keys it carries; a key holding undefined is a     *)
(* missing key.                                                            *)
(***************************************************************************)
EXTENDS Integers, Sequences, FiniteSets, TLC

VARIABLES
    sessions,            \* SessionState.sessions
    currentSessionId,    \* SessionState.currentSessionId (Null for null)
    isGenerating,        \* isGenerating{Name,Tags,Notes}ForSessionId, by kind
    isStreamingResponse, \* SessionState.isStreamingResponse
    models,              \* ModelStoreState.models (names)
    isLoadingModels,     \* ModelStoreState.isLoadingModels
    storage,             \* localStorage slot 'chat-sessions-storage'
    download,            \* the last file written by exportSessions
    alert,               \* the alert() raised by the handler that ran last ("" if none)
    uuidCount,           \* number of uuidv4() calls made so far
    now,                 \* the clock read by new Date()
    turns,               \* the handleSend calls of the Chat component still running
    turnCount,           \* number of turns started so far (= AbortControllers created)
    abortControllerRef,  \* Chat's abortControllerRef.current: a controller, 0 for null
    aborted,             \* the AbortControllers whose signal is aborted
    gens,                \* the generateSession{Name,Tags,Notes} calls awaiting ollama.chat
    searchText,          \* SearchBox's searchText
    isBookmarkFilter,    \* SearchBox's isBookmarkFilter
    isFavoriteFilter,    \* SearchBox's isFavoriteFilter
    filtered,            \* SessionsSidebar's filteredSessions, the list it displays
    filter,              \* SessionsSidebar's quick filter: all, bookmarked or favorites
    lastOp               \* the handler that ran last (history)

vars == <<sessions, currentSessionId, isGenerating, isStreamingResponse, models,
          isLoadingModels, storage, download, alert, uuidCount, now, turns, turnCount,
          abortControllerRef, aborted, gens, searchText, isBookmarkFilter,
          isFavoriteFilter, filtered, filter, lastOp>>

modelVars == <<models, isLoadingModels>>
chatVars == <<turns, turnCount, abortControllerRef, aborted, gens>>
searchVars == <<searchText, isBookmarkFilter, isFavoriteFilter, filtered, filter>>

----------------------------------------------------------------------------
(* Bounds of the model *)

MaxUuid == 2
MaxSessions == 2
MaxTime == 2
MaxChunks == 3
MaxTurns == 1
MaxRegenerations == 1

----------------------------------------------------------------------------
(* Values *)

Null == "<null>"

DEFAULT_SESSION_NAME == <<"N","e","w"," ","C","h","a","t">>

DEFAULT_SYSTEM_PROMPT ==
    <<"Y","o","u"," ","a","r","e"," ","a"," ","h","e","l","p","f","u","l"," ",
      "A","I"," ","a","s","s","i","s","t","a","n","t",".">>

UuidPool == <<"u1","u2","u3","u4","u5","u6","u7","u8">>

\* uuidv4(): the n-th call returns an id no earlier call returned
uuidv4(n) == UuidPool[n + 1]

\* new Date() / an Invalid Date, in memory
DateAt(t) == [kind |-> "date", t |-> t]
InvalidDate == [kind |-> "invalid", t |-> 0]

\* The JSON forms of a timestamp
IsoString(t) == [kind |-> "iso", t |-> t]
JsonNull == [kind |-> "null", t |-> 0]
GarbageString == [kind |-> "garbage", t |-> 0]

\* new Date(v) for v a Date, an ISO string, null or another string
NewDate(v) ==
    CASE v.kind = "date" -> v
      [] v.kind = "invalid" -> v
      [] v.kind = "iso" -> DateAt(v.t)
      [] v.kind = "null" -> DateAt(0)
      [] OTHER -> InvalidDate

\* Date.prototype.toJSON, as JSON.stringify applies it
DateToJSON(d) == IF d.kind = "date" THEN IsoString(d.t) ELSE JsonNull

\* JavaScript truthiness of a timestamp value read from JSON
TruthyTime(v) == v.kind # "null"

Has(o, k) == k \in DOMAIN o

\* { ...o, ...u }
Spread(o, u) == u @@ o

Without(o, k) == [x \in DOMAIN o \ {k} |-> o[x]]

\* id || null
OrNull(id) == IF id = "" THEN Null ELSE id

SessionIds(ss) == {ss[i].id : i \in 1..Len(ss)}

\* sessions.find(s => s.id === id): the index of the first match, 0 if none
FindIndex(ss, id) ==
    IF \E i \in 1..Len(ss) : ss[i].id = id
    THEN CHOOSE i \in 1..Len(ss) : ss[i].id = id /\ \A j \in 1..(i - 1) : ss[j].id # id
    ELSE 0

Front(s) == IF Len(s) = 0 THEN <<>> ELSE SubSeq(s, 1, Len(s) - 1)

Last(s) == s[Len(s)]

\* String.prototype.trim
IsWhitespace(c) == c \in {" ", "\n", "\t"}

RECURSIVE TrimStart(_)
TrimStart(text) ==
    IF Len(text) > 0 /\ IsWhitespace(Head(text)) THEN TrimStart(Tail(text)) ELSE text

RECURSIVE TrimEnd(_)
TrimEnd(text) ==
    IF Len(text) > 0 /\ IsWhitespace(Last(text)) THEN TrimEnd(Front(text)) ELSE text

Trim(text) == TrimEnd(TrimStart(text))

\* text.replace(/["']/g, '')
RemoveQuotes(text) == SelectSeq(text, LAMBDA c : c \notin {"\"", "'"})

\* text.replace(/\.$/, '')
RemoveFinalDot(text) ==
    IF Len(text) > 0 /\ Last(text) = "." THEN Front(text) ELSE text

\* text.split(','): the pieces between the commas, in order
RECURSIVE SplitAtCommas(_, _)
SplitAtCommas(text, piece) ==
    IF Len(text) = 0 THEN <<piece>>
    ELSE IF Head(text) = "," THEN <<piece>> \o SplitAtCommas(Tail(text), <<>>)
    ELSE SplitAtCommas(Tail(text), Append(piece, Head(text)))

\* The concatenation of a sequence of texts
RECURSIVE Flatten(_)
Flatten(texts) == IF Len(texts) = 0 THEN <<>> ELSE Head(texts) \o Flatten(Tail(texts))

----------------------------------------------------------------------------
(* Persistence: zustand persist with partialize and createJSONStorage *)

NoData == [present |-> FALSE, sessions |-> <<>>, currentSessionId |-> Null]

\* A stored string JSON.parse rejects
UnparsableData ==
    [present |-> TRUE, parses |-> FALSE, sessions |-> <<>>, currentSessionId |-> Null]

\* Whether getItem throws on the stored value
ParseFails(stored) == Has(stored, "parses") /\ ~stored.parses

\* JSON.stringify of one in-memory session: dates through toJSON
SessionToJSON(s) ==
    [k \in DOMAIN s |->
        IF k \in {"createdAt", "updatedAt"} THEN DateToJSON(s[k]) ELSE s[k]]

\* partialize + setItem: what every set() writes
Persisted(ss, cur) ==
    [present |-> TRUE,
     sessions |-> [i \in 1..Len(ss) |-> SessionToJSON(ss[i])],
     currentSessionId |-> cur]


\* createNewSessionInternal, with the uuid and the clock it reads
createNewSessionInternal(id, mdls, t) ==
    [id |-> id,
     name |-> DEFAULT_SESSION_NAME,
     systemPrompt |-> DEFAULT_SYSTEM_PROMPT,
     messages |-> <<>>,
     model |-> IF Len(mdls) > 0 THEN mdls[1] ELSE "",
     tags |-> <<>>,
     notes |-> <<>>,
     isBookmarked |-> FALSE,
     isFavorite |-> FALSE,
     createdAt |-> DateAt(t),
     updatedAt |-> DateAt(t)]

\* Rehydrated without the repair of a current id that matches no session
Rehydrated_KeepsCurrent(stored, mdls, n, t) ==
    LET loaded == IF stored.present THEN stored.sessions ELSE <<>>
        cur == IF stored.present THEN stored.currentSessionId ELSE Null
        rehydratedSessions ==
            [i \in 1..Len(loaded) |->
                Spread(loaded[i],
                       [createdAt |-> IF Has(loaded[i], "createdAt")
                                      THEN NewDate(loaded[i].createdAt) ELSE InvalidDate,
                        updatedAt |-> IF Has(loaded[i], "updatedAt")
                                      THEN NewDate(loaded[i].updatedAt) ELSE InvalidDate])]
    IN  IF ParseFails(stored)
        THEN [sessions |-> <<>>, currentSessionId |-> Null, uuids |-> 1]
        ELSE IF Len(rehydratedSessions) = 0
        THEN [sessions |-> <<createNewSessionInternal(uuidv4(n), mdls, t)>>,
              currentSessionId |-> uuidv4(n), uuids |-> 1]
        ELSE [sessions |-> rehydratedSessions, currentSessionId |-> cur, uuids |-> 0]

\* onRehydrateStorage, applied to the state persist merged from the stored
\* record: the session list, the current id, the uuids consumed. When getItem
\* throws, the error branch makes a session and then calls set, which is not
\* in scope there, so the store keeps its initial state
Rehydrated(stored, mdls, n, t) ==
    LET loaded == IF stored.present THEN stored.sessions ELSE <<>>
        cur == IF stored.present THEN stored.currentSessionId ELSE Null
        rehydratedSessions ==
            [i \in 1..Len(loaded) |->
                Spread(loaded[i],
                       [createdAt |-> IF Has(loaded[i], "createdAt")
                                      THEN NewDate(loaded[i].createdAt) ELSE InvalidDate,
                        updatedAt |-> IF Has(loaded[i], "updatedAt")
                                      THEN NewDate(loaded[i].updatedAt) ELSE InvalidDate])]
    IN  IF ParseFails(stored)
        THEN [sessions |-> <<>>, currentSessionId |-> Null, uuids |-> 1]
        ELSE IF Len(rehydratedSessions) = 0
        THEN [sessions |-> <<createNewSessionInternal(uuidv4(n), mdls, t)>>,
              currentSessionId |-> uuidv4(n), uuids |-> 1]
        ELSE IF cur \notin SessionIds(rehydratedSessions)
        THEN [sessions |-> rehydratedSessions,
              currentSessionId |-> rehydratedSessions[1].id, uuids |-> 0]
        ELSE [sessions |-> rehydratedSessions, currentSessionId |-> cur, uuids |-> 0]

----------------------------------------------------------------------------
(* Store operations (sessionStore.ts), as functions of the state they read *)

\* deleteSession that leaves currentSessionId alone when sessions remain
deleteSession_KeepsCurrent(ss, cur, sessionId, mdls, n, t) ==
    LET newSessions == SelectSeq(ss, LAMBDA x : x.id # sessionId)
    IN  IF Len(newSessions) = 0
        THEN [sessions |-> <<createNewSessionInternal(uuidv4(n), mdls, t)>>,
              currentSessionId |-> uuidv4(n), uuids |-> 1]
        ELSE [sessions |-> newSessions, currentSessionId |-> cur, uuids |-> 0]

deleteSession(ss, cur, sessionId, mdls, n, t) ==
    LET newSessions == SelectSeq(ss, LAMBDA x : x.id # sessionId)
    IN  IF Len(newSessions) = 0
        THEN [sessions |-> <<createNewSessionInternal(uuidv4(n), mdls, t)>>,
              currentSessionId |-> uuidv4(n), uuids |-> 1]
        ELSE IF cur = sessionId
        THEN [sessions |-> newSessions, currentSessionId |-> OrNull(newSessions[1].id),
              uuids |-> 0]
        ELSE [sessions |-> newSessions, currentSessionId |-> cur, uuids |-> 0]

\* setCurrentSessionId: the id is taken as given
setCurrentSessionId(sessionId) == sessionId

\* updateSession that adds a session for an id no session has
updateSession_Recreates(ss, sessionId, updates, t) ==
    IF \A i \in 1..Len(ss) : ss[i].id # sessionId
    THEN Append(ss, Spread([id |-> sessionId, updatedAt |-> DateAt(t)], updates))
    ELSE [i \in 1..Len(ss) |->
            IF ss[i].id = sessionId
            THEN Spread(Spread(ss[i], updates), [updatedAt |-> DateAt(t)])
            ELSE ss[i]]

\* updateSession that keeps the updatedAt the session had
updateSession_KeepsUpdatedAt(ss, sessionId, updates, t) ==
    [i \in 1..Len(ss) |-> IF ss[i].id = sessionId THEN Spread(ss[i], updates) ELSE ss[i]]

updateSession(ss, sessionId, updates, t) ==
    [i \in 1..Len(ss) |->
        IF ss[i].id = sessionId
        THEN Spread(Spread(ss[i], updates), [updatedAt |-> DateAt(t)])
        ELSE ss[i]]

\* !session.isBookmarked, where a missing flag is undefined
NotFlag(s, k) == ~(Has(s, k) /\ s[k])

toggleBookmark(ss, sessionId, t) ==
    LET i == FindIndex(ss, sessionId)
    IN  IF i = 0 THEN ss
        ELSE updateSession(ss, sessionId, [isBookmarked |-> NotFlag(ss[i], "isBookmarked")], t)

toggleFavorite(ss, sessionId, t) ==
    LET i == FindIndex(ss, sessionId)
    IN  IF i = 0 THEN ss
        ELSE updateSession(ss, sessionId, [isFavorite |-> NotFlag(ss[i], "isFavorite")], t)


\* session.model, where a missing key reads as falsy
ModelOf(s) == IF Has(s, "model") THEN s.model ELSE ""

\* RepairedSessions that only fills in a model that is empty
RepairedSessions_EmptyOnly(ss, mdls, t) ==
    [i \in 1..Len(ss) |->
        IF ModelOf(ss[i]) = ""
        THEN Spread(ss[i], [model |-> mdls[1], updatedAt |-> DateAt(t)])
        ELSE ss[i]]

\* The repair of the useModelStore subscription: every session whose model is
\* empty or not in the list gets the first model
RepairedSessions(ss, mdls, t) ==
    [i \in 1..Len(ss) |->
        IF ModelOf(ss[i]) = "" \/ ~(\E j \in 1..Len(mdls) : mdls[j] = ModelOf(ss[i]))
        THEN Spread(ss[i], [model |-> mdls[1], updatedAt |-> DateAt(t)])
        ELSE ss[i]]

----------------------------------------------------------------------------
(* Export and import *)

\* A file the user picks: whether JSON.parse accepts it, whether the value is
\* an array, and the array's items; an item is an object (its keys in obj),
\* null, or a string
JsonFile(items) == [parses |-> TRUE, isArray |-> TRUE, items |-> items]
UnparsableFile == [parses |-> FALSE, isArray |-> FALSE, items |-> <<>>]
NonArrayFile == [parses |-> TRUE, isArray |-> FALSE, items |-> <<>>]
ObjectItem(o) == [type |-> "object", obj |-> o]
NullItem == [type |-> "null", obj |-> <<>>]
StringItem == [type |-> "string", obj |-> <<>>]

\* download.source is the collection the file was exported from (history)
NoDownload == [present |-> FALSE, file |-> UnparsableFile, source |-> <<>>]

\* The replacer of exportSessions on a value JSON.stringify already passed
\* through toJSON: new Date(value).toISOString()
ExportReplacer(d) == IsoString(NewDate(DateToJSON(d)).t)

ExportedSession(s) ==
    [k \in DOMAIN s |->
        IF k \in {"createdAt", "updatedAt"} THEN ExportReplacer(s[k]) ELSE s[k]]

\* exportSessions: the file downloaded for the collection ss
exportSessions(ss) ==
    JsonFile([i \in 1..Len(ss) |-> ObjectItem(ExportedSession(ss[i]))])

TruthyId(o) == Has(o, "id") /\ o.id # ""
TruthyText(o, k) == Has(o, k) /\ Len(o[k]) > 0

\* One record of importSessions' map; id is session.id || uuidv4()
Normalized(o, id, defaultModelName, t) ==
    [id |-> id,
     name |-> IF TruthyText(o, "name") THEN o.name ELSE DEFAULT_SESSION_NAME,
     systemPrompt |-> IF TruthyText(o, "systemPrompt") THEN o.systemPrompt
                      ELSE DEFAULT_SYSTEM_PROMPT,
     messages |-> IF Has(o, "messages") THEN o.messages ELSE <<>>,
     model |-> IF ModelOf(o) # "" THEN o.model ELSE defaultModelName,
     tags |-> IF Has(o, "tags") THEN o.tags ELSE <<>>,
     notes |-> IF TruthyText(o, "notes") THEN o.notes ELSE <<>>,
     isBookmarked |-> Has(o, "isBookmarked") /\ o.isBookmarked,
     isFavorite |-> Has(o, "isFavorite") /\ o.isFavorite,
     options |-> IF Has(o, "options") THEN o.options ELSE <<>>,
     createdAt |-> IF Has(o, "createdAt") /\ TruthyTime(o.createdAt)
                   THEN NewDate(o.createdAt) ELSE DateAt(t),
     updatedAt |-> IF Has(o, "updatedAt") /\ TruthyTime(o.updatedAt)
                   THEN NewDate(o.updatedAt) ELSE DateAt(t)]

RECURSIVE NormalizedFrom(_, _, _, _)
NormalizedFrom(items, defaultModelName, n, t) ==
    IF items = <<>> THEN <<>>
    ELSE LET o == Head(items).obj
         IN  IF TruthyId(o)
             THEN <<Normalized(o, o.id, defaultModelName, t)>>
                  \o NormalizedFrom(Tail(items), defaultModelName, n, t)
             ELSE <<Normalized(o, uuidv4(n), defaultModelName, t)>>
                  \o NormalizedFrom(Tail(items), defaultModelName, n + 1, t)

\* The uuidv4() calls importSessions makes for these items
UuidsNeeded(items) == Cardinality({i \in 1..Len(items) : ~TruthyId(items[i].obj)})

\* importSessions that appends the imported records to the collection
importSessions_Merging(ss, cur, items, mdls, n, t) ==
    LET normalized == NormalizedFrom(items, IF Len(mdls) > 0 THEN mdls[1] ELSE "", n, t)
    IN  [sessions |-> ss \o normalized,
         currentSessionId |-> IF Len(normalized) > 0 THEN OrNull(normalized[1].id)
                              ELSE Null,
         uuids |-> UuidsNeeded(items), set |-> TRUE, alert |-> ""]

\* importSessions: reading a property of null throws inside the map, and the
\* catch raises the alert and leaves the state as it was
importSessions(ss, cur, items, mdls, n, t) ==
    IF \E i \in 1..Len(items) : items[i].type = "null"
    THEN [sessions |-> ss, currentSessionId |-> cur, uuids |-> 0, set |-> FALSE,
          alert |-> "Failed to import sessions. The file might be corrupted or in an invalid format."]
    ELSE LET normalized ==
                 NormalizedFrom(items, IF Len(mdls) > 0 THEN mdls[1] ELSE "", n, t)
         IN  [sessions |-> normalized,
              currentSessionId |-> IF Len(normalized) > 0 THEN OrNull(normalized[1].id)
                                   ELSE Null,
              uuids |-> UuidsNeeded(items), set |-> TRUE, alert |-> ""]

\* The item test without its item.id conjunct
ItemCheck_NoIdTest(item) ==
    CASE item.type = "null" -> "throws"
      [] item.type = "string" -> "bad"
      [] OTHER -> IF TruthyText(item.obj, "name") THEN "ok" ELSE "bad"

\* The test of handleFileChange on one item: typeof item === 'object' &&
\* item.id && item.name ("ok", "bad", or "throws" for null, whose typeof is
\* 'object' and whose .id throws a TypeError)
ItemCheck(item) ==
    CASE item.type = "null" -> "throws"
      [] item.type = "string" -> "bad"
      [] OTHER -> IF TruthyId(item.obj) /\ TruthyText(item.obj, "name")
                  THEN "ok" ELSE "bad"

\* json.every(...) stops at the first item that is not ok
FirstNotOk(items) ==
    IF \E i \in 1..Len(items) : ItemCheck(items[i]) # "ok"
    THEN CHOOSE i \in 1..Len(items) :
            ItemCheck(items[i]) # "ok" /\ \A j \in 1..(i - 1) : ItemCheck(items[j]) = "ok"
    ELSE 0

\* handleFileChange's reader.onload: "import", or the alert it raises
FileVerdict(file) ==
    IF ~file.parses THEN "Failed to parse JSON file or import sessions."
    ELSE IF ~file.isArray THEN "Invalid session backup file format."
    ELSE IF FirstNotOk(file.items) = 0 THEN "import"
    ELSE IF ItemCheck(file.items[FirstNotOk(file.items)]) = "throws"
    THEN "Failed to parse JSON file or import sessions."
    ELSE "Invalid session backup file format."


----------------------------------------------------------------------------
(* Inputs *)

ModelLists == {<<>>, <<"m1">>, <<"m2", "m1">>}

PromptTexts == {<<>>, <<"p">>}

\* Records a backup file may hold: bare id and name; the same id again with a
\* flag set; one whose optional fields are empty or unusable; a missing id; a
\* missing name
RecordA == [id |-> "a", name |-> <<"A">>]
RecordA2 == [id |-> "a", name |-> <<"A">>, isBookmarked |-> TRUE]
RecordB ==
    [id |-> "b", name |-> <<"B">>, systemPrompt |-> <<>>, model |-> "m1",
     isFavorite |-> TRUE, createdAt |-> GarbageString, updatedAt |-> JsonNull]
RecordNoId == [name |-> <<"A">>]
RecordNoName == [id |-> "a"]

\* The files the user may pick in the import dialog
PickableFiles ==
    { UnparsableFile,
      NonArrayFile,
      JsonFile(<<>>),
      JsonFile(<<ObjectItem(RecordA)>>),
      JsonFile(<<ObjectItem(RecordB), ObjectItem(RecordA)>>),
      JsonFile(<<ObjectItem(RecordA2), ObjectItem(RecordA)>>),
      JsonFile(<<ObjectItem(RecordNoId)>>),
      JsonFile(<<ObjectItem(RecordA), ObjectItem(RecordNoName)>>),
      JsonFile(<<ObjectItem(RecordA), NullItem>>),
      JsonFile(<<StringItem, NullItem>>) }

InitialStorages == {NoData}

NoGeneration == [name |-> Null, tags |-> Null, notes |-> Null]

Op(name, id) == [op |-> name, id |-> id]

----------------------------------------------------------------------------
(* The application: startup, the sidebars' handlers, the model registry *)

\* SessionsSidebar's effect on [sessions, filter]: the sessions the quick
\* filter lets through
QuickFiltered(ss, f) ==
    CASE f = "bookmarked" -> SelectSeq(ss, LAMBDA session : session.isBookmarked)
      [] f = "favorites" -> SelectSeq(ss, LAMBDA session : session.isFavorite)
      [] OTHER -> ss

\* The sidebar and its SearchBox as they are mounted: an empty input, no type
\* filter, the quick filter on all, every session displayed
SearchBoxMounted ==
    /\ searchText = <<>>
    /\ isBookmarkFilter = FALSE
    /\ isFavoriteFilter = FALSE
    /\ filter = "all"
    /\ filtered = QuickFiltered(sessions, "all")

\* The sidebar rendered after a handler that is not its own: the effect runs
\* when the collection changed and displays the quick-filtered sessions; the
\* SearchBox keeps its input
SidebarRenders ==
    /\ filtered' = IF sessions' # sessions THEN QuickFiltered(sessions', filter)
                                           ELSE filtered
    /\ UNCHANGED <<searchText, isBookmarkFilter, isFavoriteFilter, filter>>

\* set(...) of the persisted store: the new state, written through to storage
Commit(ss, cur) ==
    /\ sessions' = ss
    /\ currentSessionId' = cur
    /\ storage' = Persisted(ss, cur)

\* Module load: modelStore starts fetchModels, then sessionStore is created
\* and persist rehydrates it synchronously from localStorage
Init ==
    /\ storage \in InitialStorages
    /\ models = <<>>
    /\ isLoadingModels = TRUE
    /\ now = 1
    /\ LET r == Rehydrated(storage, <<>>, 0, 1)
       IN  /\ sessions = r.sessions
           /\ currentSessionId = r.currentSessionId
           /\ uuidCount = r.uuids
    /\ isGenerating = NoGeneration
    /\ isStreamingResponse = FALSE
    /\ download = NoDownload
    /\ alert = ""
    /\ turns = <<>>
    /\ turnCount = 0
    /\ abortControllerRef = 0
    /\ aborted = {}
    /\ gens = <<>>
    /\ SearchBoxMounted
    /\ lastOp = Op("startup", "")

\* The page is reloaded: memory is lost, localStorage and the downloads stay
Restart ==
    /\ turns = <<>> /\ gens = <<>>
    /\ LET r == Rehydrated(storage, <<>>, uuidCount, now)
       IN  /\ uuidCount + r.uuids <= MaxUuid
           /\ sessions' = r.sessions
           /\ currentSessionId' = r.currentSessionId
           /\ uuidCount' = uuidCount + r.uuids
    /\ models' = <<>>
    /\ isLoadingModels' = TRUE
    /\ isGenerating' = NoGeneration
    /\ isStreamingResponse' = FALSE
    /\ abortControllerRef' = 0
    /\ alert' = ""
    /\ searchText' = <<>>
    /\ isBookmarkFilter' = FALSE
    /\ isFavoriteFilter' = FALSE
    /\ filter' = "all"
    /\ filtered' = QuickFiltered(sessions', "all")
    /\ lastOp' = Op("restart", "")
    /\ UNCHANGED <<storage, download, now, turns, turnCount, aborted, gens>>

Tick ==
    /\ now < MaxTime
    /\ now' = now + 1
    /\ UNCHANGED <<sessions, currentSessionId, isGenerating, isStreamingResponse, models,
                   isLoadingModels, storage, download, alert, uuidCount, turns, turnCount,
                   abortControllerRef, aborted, gens, searchVars, lastOp>>

\* fetchModels resolves with a list; the subscription of sessionStore then
\* repairs the sessions when the list is not empty
FetchModelsDone(list) ==
    /\ isLoadingModels
    /\ models' = list
    /\ isLoadingModels' = FALSE
    /\ IF Len(list) > 0 /\ RepairedSessions(sessions, list, now) # sessions
       THEN Commit(RepairedSessions(sessions, list, now), currentSessionId)
       ELSE UNCHANGED <<sessions, currentSessionId, storage>>
    /\ alert' = ""
    /\ SidebarRenders
    /\ lastOp' = Op("fetchModels", "")
    /\ UNCHANGED <<isGenerating, isStreamingResponse, download, uuidCount, now, chatVars>>

\* ollama.list() rejects: only the loading flag changes
FetchModelsFailed ==
    /\ isLoadingModels
    /\ isLoadingModels' = FALSE
    /\ alert' = ""
    /\ UNCHANGED searchVars
    /\ lastOp' = Op("fetchModelsFailed", "")
    /\ UNCHANGED <<sessions, currentSessionId, storage, models, isGenerating,
                   isStreamingResponse, download, uuidCount, now, chatVars>>

\* SessionsSidebar: New Chat
AddSession ==
    /\ uuidCount < MaxUuid
    /\ Len(sessions) < MaxSessions
    /\ LET newSession == createNewSessionInternal(uuidv4(uuidCount), models, now)
       IN  Commit(Append(sessions, newSession), newSession.id)
    /\ uuidCount' = uuidCount + 1
    /\ alert' = ""
    /\ SidebarRenders
    /\ lastOp' = Op("addSession", uuidv4(uuidCount))
    /\ UNCHANGED <<isGenerating, isStreamingResponse, modelVars, download, now, chatVars>>

\* SessionsSidebar: click on a listed session
SelectSession(i) ==
    /\ Commit(sessions, setCurrentSessionId(sessions[i].id))
    /\ alert' = ""
    /\ SidebarRenders
    /\ lastOp' = Op("setCurrentSessionId", sessions[i].id)
    /\ UNCHANGED <<isGenerating, isStreamingResponse, modelVars, download, uuidCount, now,
                   chatVars>>

\* SessionsSidebar: the delete button of a listed session
DeleteSession(i) ==
    /\ LET r == deleteSession(sessions, currentSessionId, sessions[i].id, models,
                              uuidCount, now)
       IN  /\ uuidCount + r.uuids <= MaxUuid
           /\ Commit(r.sessions, r.currentSessionId)
           /\ uuidCount' = uuidCount + r.uuids
    /\ alert' = ""
    /\ SidebarRenders
    /\ lastOp' = Op("deleteSession", sessions[i].id)
    /\ UNCHANGED <<isGenerating, isStreamingResponse, modelVars, download, now, chatVars>>

\* SessionsSidebar: the bookmark button of a listed session
ToggleBookmark(i) ==
    /\ Commit(toggleBookmark(sessions, sessions[i].id, now), currentSessionId)
    /\ alert' = ""
    /\ SidebarRenders
    /\ lastOp' = Op("toggleBookmark", sessions[i].id)
    /\ UNCHANGED <<isGenerating, isStreamingResponse, modelVars, download, uuidCount, now,
                   chatVars>>

\* SessionsSidebar: the star button of a listed session
ToggleFavorite(i) ==
    /\ Commit(toggleFavorite(sessions, sessions[i].id, now), currentSessionId)
    /\ alert' = ""
    /\ SidebarRenders
    /\ lastOp' = Op("toggleFavorite", sessions[i].id)
    /\ UNCHANGED <<isGenerating, isStreamingResponse, modelVars, download, uuidCount, now,
                   chatVars>>

\* SettingsSidebar (mounted for the current session): the system prompt box
UpdateSystemPrompt(text) ==
    /\ FindIndex(sessions, currentSessionId) # 0
    /\ Commit(updateSession(sessions, currentSessionId, [systemPrompt |-> text], now),
              currentSessionId)
    /\ alert' = ""
    /\ SidebarRenders
    /\ lastOp' = Op("updateSessionSystemPrompt", currentSessionId)
    /\ UNCHANGED <<isGenerating, isStreamingResponse, modelVars, download, uuidCount, now,
                   chatVars>>

\* updateSessionModel(session.id, model) for the session shown; the store takes
\* any model name
UpdateSessionModel(model) ==
    /\ FindIndex(sessions, currentSessionId) # 0
    /\ Commit(updateSession(sessions, currentSessionId, [model |-> model], now),
              currentSessionId)
    /\ alert' = ""
    /\ SidebarRenders
    /\ lastOp' = Op("updateSessionModel", currentSessionId)
    /\ UNCHANGED <<isGenerating, isStreamingResponse, modelVars, download, uuidCount, now,
                   chatVars>>

\* SessionsSidebar: Export
ExportSessions ==
    /\ download' = [present |-> TRUE, file |-> exportSessions(sessions),
                    source |-> sessions]
    /\ alert' = ""
    /\ UNCHANGED searchVars
    /\ lastOp' = Op("exportSessions", "")
    /\ UNCHANGED <<sessions, currentSessionId, storage, isGenerating, isStreamingResponse,
                   modelVars, uuidCount, now, chatVars>>

\* handleFileChange's reader.onload on a file: the validation, then
\* importSessions
ReadFile(file) ==
    /\ IF FileVerdict(file) = "import"
       THEN LET r == importSessions(sessions, currentSessionId, file.items, models,
                                    uuidCount, now)
            IN  /\ uuidCount + r.uuids <= MaxUuid
                /\ IF r.set THEN Commit(r.sessions, r.currentSessionId)
                   ELSE UNCHANGED <<sessions, currentSessionId, storage>>
                /\ uuidCount' = uuidCount + r.uuids
                /\ alert' = r.alert
       ELSE /\ alert' = FileVerdict(file)
            /\ UNCHANGED <<sessions, currentSessionId, storage, uuidCount>>
    /\ UNCHANGED <<isGenerating, isStreamingResponse, modelVars, download, now, chatVars>>

\* SessionsSidebar: Import, with a file picked in the dialog
HandleFileChange(file) ==
    /\ ReadFile(file)
    /\ SidebarRenders
    /\ lastOp' = Op("handleFileChange", "")

\* SessionsSidebar: Import, with the file the last export downloaded
ImportDownload ==
    /\ download.present
    /\ ReadFile(download.file)
    /\ SidebarRenders
    /\ lastOp' = Op("importDownload", "")

Next ==
    \/ Restart
    \/ Tick
    \/ \E list \in ModelLists : FetchModelsDone(list)
    \/ FetchModelsFailed
    \/ AddSession
    \/ \E i \in 1..Len(sessions) : SelectSession(i)
    \/ \E i \in 1..Len(sessions) : DeleteSession(i)
    \/ \E i \in 1..Len(sessions) : ToggleBookmark(i)
    \/ \E i \in 1..Len(sessions) : ToggleFavorite(i)
    \/ \E file \in PickableFiles : HandleFileChange(file)

Spec == Init /\ [][Next]_vars

\* Sessions as an earlier run of the application stored them
StoredSessionA == createNewSessionInternal("a", <<"m1">>, 1)
StoredSessionB ==
    Spread(createNewSessionInternal("b", <<"m1">>, 1), [name |-> <<"B">>, isFavorite |-> TRUE])

\* A record written before tags, notes and the flags existed, and whose
\* createdAt is not a date string
LegacyRecord ==
    [id |-> "a", name |-> <<"A">>, systemPrompt |-> <<>>, messages |-> <<>>,
     model |-> "m1", createdAt |-> GarbageString]

\* What localStorage may hold when the page is loaded: nothing, a string that
\* is not JSON, an empty collection, two sessions with the second current,
\* with a current id of neither, with no current id, and a legacy record
LoadStorages ==
    { NoData,
      UnparsableData,
      Persisted(<<>>, Null),
      Persisted(<<StoredSessionA, StoredSessionB>>, "b"),
      Persisted(<<StoredSessionA, StoredSessionB>>, "z"),
      Persisted(<<StoredSessionB>>, Null),
      [present |-> TRUE, sessions |-> <<LegacyRecord>>, currentSessionId |-> "a"] }

\* Module load over any of these stored values
InitLoad ==
    /\ storage \in LoadStorages
    /\ models = <<>>
    /\ isLoadingModels = TRUE
    /\ now = 1
    /\ LET r == Rehydrated(storage, <<>>, 0, 1)
       IN  /\ sessions = r.sessions
           /\ currentSessionId = r.currentSessionId
           /\ uuidCount = r.uuids
    /\ isGenerating = NoGeneration
    /\ isStreamingResponse = FALSE
    /\ download = NoDownload
    /\ alert = ""
    /\ turns = <<>>
    /\ turnCount = 0
    /\ abortControllerRef = 0
    /\ aborted = {}
    /\ gens = <<>>
    /\ SearchBoxMounted
    /\ lastOp = Op("startup", "")

NextLoad ==
    \/ Restart
    \/ Tick
    \/ \E list \in ModelLists : FetchModelsDone(list)
    \/ AddSession
    \/ \E i \in 1..Len(sessions) : SelectSession(i)
    \/ \E i \in 1..Len(sessions) : DeleteSession(i)
    \/ \E i \in 1..Len(sessions) : ToggleBookmark(i)

SpecLoad == InitLoad /\ [][NextLoad]_vars

\* Backup and restore: the collection is edited, exported, and the exported
\* file imported again
NextBackup ==
    \/ Tick
    \/ \E list \in ModelLists : FetchModelsDone(list)
    \/ AddSession
    \/ \E text \in PromptTexts : UpdateSystemPrompt(text)
    \/ \E i \in 1..Len(sessions) : ToggleFavorite(i)
    \/ ExportSessions
    \/ ImportDownload

SpecBackup == Init /\ [][NextBackup]_vars


----------------------------------------------------------------------------
(* The Chat component: send turns, streaming, stop, metadata generation *)

ERROR_MARKER ==
    <<"E","r","r","o","r",":"," ","F","a","i","l","e","d"," ","t","o"," ",
      "g","e","t"," ","r","e","s","p","o","n","s","e">>

REGENERATE_ERROR_MARKER ==
    <<"E","r","r","o","r",":"," ","F","a","i","l","e","d"," ","t","o"," ",
      "r","e","g","e","n","e","r","a","t","e"," ","r","e","s","p","o","n","s","e">>

Kinds == {"name", "tags", "notes"}

Message(role, content) == [role |-> role, content |-> content]

updateSessionMessages(ss, sessionId, messages, t) ==
    updateSession(ss, sessionId, [messages |-> messages], t)

\* renameSession without the test of the trimmed name
renameSession_AcceptsBlank(ss, sessionId, newName, t) ==
    updateSession(ss, sessionId, [name |-> Trim(newName)], t)

renameSession(ss, sessionId, newName, t) ==
    IF Len(Trim(newName)) > 0
    THEN updateSession(ss, sessionId, [name |-> Trim(newName)], t)
    ELSE ss

setSessionTags(ss, sessionId, tags, t) == updateSession(ss, sessionId, [tags |-> tags], t)

setSessionNotes(ss, sessionId, notes, t) ==
    updateSession(ss, sessionId, [notes |-> notes], t)

updateSessionOptions(ss, sessionId, options, t) ==
    LET i == FindIndex(ss, sessionId)
    IN  IF i = 0 THEN ss
        ELSE updateSession(ss, sessionId,
                           [options |-> Spread(IF Has(ss[i], "options") THEN ss[i].options
                                               ELSE <<>>, options)], t)

\* session.options?.stream !== false
StreamEnabled(s) ==
    ~(Has(s, "options") /\ Has(s.options, "stream") /\ s.options.stream = FALSE)

\* sessions.find(s => s.id === id)?.messages || []
MessagesOf(ss, sessionId) ==
    IF FindIndex(ss, sessionId) = 0 THEN <<>> ELSE ss[FindIndex(ss, sessionId)].messages

\* streamedContent from the chunk alone
StreamedContent_ChunkOnly(streamedContent, chunk) == chunk

\* streamedContent += chunk.message.content
StreamedContent(streamedContent, chunk) == streamedContent \o chunk

\* [...currentMessages.slice(0, -1), { role: 'assistant', content }]
WithLastReplaced(currentMessages, content) ==
    Append(Front(currentMessages), Message("assistant", content))

\* The commit of the stream loop, of the non-streamed reply and of the catch
CommitAssistant(ss, sessionId, content, t) ==
    updateSessionMessages(ss, sessionId,
                          WithLastReplaced(MessagesOf(ss, sessionId), content), t)

\* The break test of the stream loop
StopSeen == abortControllerRef = 0 \/ abortControllerRef \in aborted

\* The guard of the generations without the test of the model
CanGenerate_IgnoresModel(ss, sessionId) ==
    LET i == FindIndex(ss, sessionId)
    IN  i # 0 /\ Len(ss[i].messages) > 0

\* The guard shared by generateSessionName / Tags / Notes
CanGenerate(ss, sessionId) ==
    LET i == FindIndex(ss, sessionId)
    IN  i # 0 /\ Len(ss[i].messages) > 0 /\ ModelOf(ss[i]) # ""

\* What a generation of a kind writes for the content the model replied
GeneratedUpdate(ss, kind, sessionId, content, t) ==
    CASE kind = "name" ->
            renameSession(ss, sessionId, Trim(RemoveFinalDot(RemoveQuotes(content))), t)
      [] kind = "tags" ->
            setSessionTags(ss, sessionId,
                           SelectSeq([j \in 1..Len(SplitAtCommas(content, <<>>)) |->
                                         Trim(SplitAtCommas(content, <<>>)[j])],
                                     LAMBDA tag : Len(tag) > 0), t)
      [] OTHER -> setSessionNotes(ss, sessionId, Trim(content), t)

\* messages.filter that drops the message at the index and all after it
RemoveAt_ThroughEnd(s, i) == SubSeq(s, 1, i - 1)

RemoveAt(s, i) == SubSeq(s, 1, i - 1) \o SubSeq(s, i + 1, Len(s))

SendTexts == {<<"h","i">>, <<" ">>}

\* The chunks the model server streams for a reply, in order; a stream may
\* end after any of them
ChunkStream == <<<<"H","e","l">>, <<"l","o">>, <<" ","w","o","r","l","d">>>>

\* The k-th chunk of a stream
ChunkAt(k) == ChunkStream[((k - 1) % Len(ChunkStream)) + 1]

Chunks == {ChunkStream[k] : k \in 1..Len(ChunkStream)}

Replies == {<<"o","k">>}

GenContents == {<<>>, <<"'","T","'",","," ","x",".">>}

\* A handleSend call whose request includes the empty assistant placeholder
NewTurn_WithPlaceholder(session, userMessage) ==
    [kind |-> "send", session |-> session, index |-> 0, pc |-> "sending",
     streamEnabled |-> StreamEnabled(session), streamedContent |-> <<>>,
     received |-> <<>>,
     messagesToApi |-> <<Message("system", session.systemPrompt)>>
                       \o (session.messages \o <<userMessage>>)
                       \o <<Message("assistant", <<>>)>>]

\* A running handleSend call: its closure (session), its locals, and where it
\* is suspended
NewTurn(session, userMessage) ==
    [kind |-> "send", session |-> session, index |-> 0, pc |-> "sending",
     streamEnabled |-> StreamEnabled(session), streamedContent |-> <<>>,
     received |-> <<>>,
     messagesToApi |-> <<Message("system", session.systemPrompt)>>
                       \o Front((session.messages \o <<userMessage>>)
                                \o <<Message("assistant", <<>>)>>)]

\* A running handleRegenerate call; index is lastAssistantIndex (from 1)
NewRegenerateTurn(session, index) ==
    [kind |-> "regenerate", session |-> session, index |-> index, pc |-> "sending",
     streamEnabled |-> StreamEnabled(session), streamedContent |-> <<>>,
     received |-> <<>>,
     messagesToApi |-> <<Message("system", session.systemPrompt)>>
                       \o SubSeq(session.messages, 1, index - 1)]

\* session.messages.map(m => m.role).lastIndexOf('assistant'), from 1; 0 if none
LastAssistantIndex(messages) ==
    IF \E i \in 1..Len(messages) : messages[i].role = "assistant"
    THEN CHOOSE i \in 1..Len(messages) :
            /\ messages[i].role = "assistant"
            /\ \A j \in (i + 1)..Len(messages) : messages[j].role # "assistant"
    ELSE 0

\* The empty slot an assignment beyond the end of an array leaves behind
Hole == [role |-> "undefined", content |-> <<>>]

\* updatedMessages = [...latestMessages]; updatedMessages[index] = {assistant}
WithReplacedAt(latestMessages, index, content) ==
    [i \in 1..(IF index > Len(latestMessages) THEN index ELSE Len(latestMessages)) |->
        IF i = index THEN Message("assistant", content)
        ELSE IF i <= Len(latestMessages) THEN latestMessages[i]
        ELSE Hole]

\* The commit a turn makes for content: handleSend replaces the last slot,
\* handleRegenerate the slot at lastAssistantIndex
TurnCommit(rec, ss, content, t) ==
    IF rec.kind = "send" THEN CommitAssistant(ss, rec.session.id, content, t)
    ELSE updateSessionMessages(ss, rec.session.id,
                               WithReplacedAt(MessagesOf(ss, rec.session.id), rec.index,
                                              content), t)

\* The text the catch block of the turn writes
ErrorMarkerOf(rec) ==
    IF rec.kind = "send" THEN ERROR_MARKER ELSE REGENERATE_ERROR_MARKER

\* The turns other than t
TurnsWithout(t) == [x \in DOMAIN turns \ {t} |-> turns[x]]

\* A finally block that leaves isStreamingResponse as it is
Finally_FlagKept(t, ss, gen) ==
    /\ Commit(ss, currentSessionId)
    /\ isGenerating' = gen
    /\ isStreamingResponse' = isStreamingResponse
    /\ abortControllerRef' =
         IF abortControllerRef # 0 /\ abortControllerRef \notin aborted THEN 0
         ELSE abortControllerRef
    /\ turns' = TurnsWithout(t)

\* The finally block of handleSend, for turn t, with the sessions and markers
\* the steps before it left
Finally(t, ss, gen) ==
    /\ Commit(ss, currentSessionId)
    /\ isGenerating' = gen
    /\ isStreamingResponse' = FALSE
    /\ abortControllerRef' =
         IF abortControllerRef # 0 /\ abortControllerRef \notin aborted THEN 0
         ELSE abortControllerRef
    /\ turns' = TurnsWithout(t)

\* triggerMetadataGeneration of turn t (its record now rec) after the loop or
\* the reply: the three generations start, or the turn goes on to its finally
TriggerMetadataGeneration(t, rec, ss) ==
    IF rec.session.name = DEFAULT_SESSION_NAME /\ CanGenerate(ss, rec.session.id)
    THEN /\ Commit(ss, currentSessionId)
         /\ isGenerating' = [k \in Kinds |-> rec.session.id]
         /\ gens' = gens \o <<[kind |-> "name", sessionId |-> rec.session.id, turn |-> t],
                              [kind |-> "tags", sessionId |-> rec.session.id, turn |-> t],
                              [kind |-> "notes", sessionId |-> rec.session.id, turn |-> t]>>
         /\ turns' = [turns EXCEPT ![t] = [rec EXCEPT !.pc = "metadata"]]
         /\ UNCHANGED <<isStreamingResponse, abortControllerRef>>
    ELSE /\ Finally(t, ss, isGenerating)
         /\ UNCHANGED gens

\* Chat: Send (button or Enter), for the text typed in the box
HandleSend(text) ==
    /\ ~isStreamingResponse
    /\ turnCount < MaxTurns
    /\ FindIndex(sessions, currentSessionId) # 0
    /\ LET session == sessions[FindIndex(sessions, currentSessionId)]
           newMessages == session.messages \o <<Message("user", text),
                                                Message("assistant", <<>>)>>
       IN  IF Len(Trim(text)) = 0 \/ ModelOf(session) = ""
           THEN UNCHANGED <<sessions, currentSessionId, storage, isStreamingResponse,
                            turns, turnCount, abortControllerRef>>
           ELSE /\ Commit(updateSessionMessages(sessions, session.id, newMessages, now),
                          currentSessionId)
                /\ isStreamingResponse' = TRUE
                /\ turnCount' = turnCount + 1
                /\ abortControllerRef' = turnCount + 1
                /\ turns' = ((turnCount + 1) :> NewTurn(session, Message("user", text)))
                             @@ turns
    /\ alert' = ""
    /\ SidebarRenders
    /\ lastOp' = Op("handleSend", currentSessionId)
    /\ UNCHANGED <<isGenerating, modelVars, download, uuidCount, now, aborted, gens>>

\* Chat: Regenerate (the button of the last assistant message, or Ctrl+Space)
HandleRegenerate ==
    /\ ~isStreamingResponse
    /\ turnCount < MaxTurns + MaxRegenerations
    /\ FindIndex(sessions, currentSessionId) # 0
    /\ LET session == sessions[FindIndex(sessions, currentSessionId)]
           lastAssistantIndex == LastAssistantIndex(session.messages)
       IN  IF lastAssistantIndex = 0
           THEN UNCHANGED <<sessions, currentSessionId, storage, isStreamingResponse,
                            turns, turnCount, abortControllerRef>>
           ELSE /\ Commit(updateSessionMessages(
                             sessions, session.id,
                             [session.messages EXCEPT
                                 ![lastAssistantIndex] = Message("assistant", <<>>)],
                             now),
                          currentSessionId)
                /\ isStreamingResponse' = TRUE
                /\ turnCount' = turnCount + 1
                /\ abortControllerRef' = turnCount + 1
                /\ turns' = ((turnCount + 1) :> NewRegenerateTurn(session,
                                                                  lastAssistantIndex))
                             @@ turns
    /\ alert' = ""
    /\ SidebarRenders
    /\ lastOp' = Op("handleRegenerate", currentSessionId)
    /\ UNCHANGED <<isGenerating, modelVars, download, uuidCount, now, aborted, gens>>

\* client.chat({stream: true}) resolves with the response iterator
ResponseArrives(t) ==
    /\ turns[t].pc = "sending"
    /\ turns[t].streamEnabled
    /\ turns' = [turns EXCEPT ![t].pc = "streaming"]
    /\ UNCHANGED searchVars
    /\ lastOp' = Op("response", turns[t].session.id)
    /\ UNCHANGED <<sessions, currentSessionId, storage, isGenerating, isStreamingResponse,
                   modelVars, download, alert, uuidCount, now, turnCount,
                   abortControllerRef, aborted, gens>>

\* The iterator of turn t yields a chunk: one pass of the for-await loop
ChunkArrives(t, chunk) ==
    /\ turns[t].pc = "streaming"
    /\ Len(turns[t].received) < MaxChunks
    /\ chunk = ChunkAt(Len(turns[t].received) + 1)
    /\ LET rec == [turns[t] EXCEPT !.received = Append(@, chunk)]
       IN  IF StopSeen
           THEN TriggerMetadataGeneration(t, rec, sessions)
           ELSE LET content == StreamedContent(rec.streamedContent, chunk)
                IN  /\ Commit(TurnCommit(rec, sessions, content, now), currentSessionId)
                    /\ turns' = [turns EXCEPT ![t] = [rec EXCEPT !.streamedContent = content]]
                    /\ UNCHANGED <<isGenerating, isStreamingResponse, abortControllerRef,
                                   gens>>
    /\ SidebarRenders
    /\ lastOp' = Op("chunk", turns[t].session.id)
    /\ UNCHANGED <<modelVars, download, alert, uuidCount, now, turnCount, aborted>>

\* The iterator of turn t is exhausted
StreamEnds(t) ==
    /\ turns[t].pc = "streaming"
    /\ TriggerMetadataGeneration(t, turns[t], sessions)
    /\ SidebarRenders
    /\ lastOp' = Op("streamEnd", turns[t].session.id)
    /\ UNCHANGED <<modelVars, download, alert, uuidCount, now, turnCount, aborted>>

\* client.chat({stream: false}) resolves with the whole reply
ReplyArrives(t, content) ==
    /\ turns[t].pc = "sending"
    /\ ~turns[t].streamEnabled
    /\ TriggerMetadataGeneration(t, turns[t], TurnCommit(turns[t], sessions, content, now))
    /\ SidebarRenders
    /\ lastOp' = Op("reply", turns[t].session.id)
    /\ UNCHANGED <<modelVars, download, alert, uuidCount, now, turnCount, aborted>>

\* client.chat or the iterator of turn t throws: an AbortError (only once the
\* signal given to the call is aborted) or another error; the catch, then the
\* finally
TransportFails(t, isAbortError) ==
    /\ turns[t].pc \in {"sending", "streaming"}
    /\ isAbortError => t \in aborted
    /\ Finally(t,
               IF isAbortError THEN sessions
               ELSE TurnCommit(turns[t], sessions, ErrorMarkerOf(turns[t]), now),
               isGenerating)
    /\ SidebarRenders
    /\ lastOp' = Op(IF isAbortError THEN "abortError" ELSE "transportError",
                    turns[t].session.id)
    /\ UNCHANGED <<modelVars, download, alert, uuidCount, now, turnCount, aborted, gens>>

\* Chat: Stop
HandleStop ==
    /\ isStreamingResponse
    /\ aborted' = IF abortControllerRef # 0 THEN aborted \cup {abortControllerRef}
                  ELSE aborted
    /\ abortControllerRef' = 0
    /\ isStreamingResponse' = FALSE
    /\ Commit(sessions, currentSessionId)
    /\ alert' = ""
    /\ SidebarRenders
    /\ lastOp' = Op("handleStop", currentSessionId)
    /\ UNCHANGED <<isGenerating, modelVars, download, uuidCount, now, turns, turnCount,
                   gens>>

\* Chat: the delete button of message i of the session shown
HandleDelete(i) ==
    /\ FindIndex(sessions, currentSessionId) # 0
    /\ i \in 1..Len(MessagesOf(sessions, currentSessionId))
    /\ Commit(updateSessionMessages(sessions, currentSessionId,
                                    RemoveAt(MessagesOf(sessions, currentSessionId), i), now),
              currentSessionId)
    /\ alert' = ""
    /\ SidebarRenders
    /\ lastOp' = Op("handleDelete", currentSessionId)
    /\ UNCHANGED <<isGenerating, isStreamingResponse, modelVars, download, uuidCount, now,
                   chatVars>>

\* SettingsSidebar: the Stream switch of the session shown
UpdateStreamOption(checked) ==
    /\ FindIndex(sessions, currentSessionId) # 0
    /\ Commit(updateSessionOptions(sessions, currentSessionId, [stream |-> checked], now),
              currentSessionId)
    /\ alert' = ""
    /\ SidebarRenders
    /\ lastOp' = Op("updateSessionOptions", currentSessionId)
    /\ UNCHANGED <<isGenerating, isStreamingResponse, modelVars, download, uuidCount, now,
                   chatVars>>

\* The generation options the settings sidebar edits here, and values for them
OptionKeys == {"temperature", "stop"}

OptionValues(key) == IF key = "stop" THEN {<<"#">>} ELSE {1, 2}

\* SettingsSidebar.handleUpdateOption for the session shown
HandleUpdateOption(key, value) ==
    /\ FindIndex(sessions, currentSessionId) # 0
    /\ Commit(updateSessionOptions(sessions, currentSessionId, key :> value, now),
              currentSessionId)
    /\ alert' = ""
    /\ SidebarRenders
    /\ lastOp' = Op("handleUpdateOption", currentSessionId)
    /\ UNCHANGED <<isGenerating, isStreamingResponse, modelVars, download, uuidCount, now,
                   chatVars>>

\* SettingsSidebar.handleResetOption for the session shown. The reset button
\* of a key is rendered only while the key has a value; the stop input also
\* resets when its text holds no value. The argument handed to
\* updateSessionOptions is undefined when no key is left, and spreading
\* undefined adds no key, as spreading the empty object does.
HandleResetOption(key) ==
    /\ FindIndex(sessions, currentSessionId) # 0
    /\ LET session == sessions[FindIndex(sessions, currentSessionId)]
           newOptions == Without(IF Has(session, "options") THEN session.options ELSE <<>>,
                                 key)
       IN  /\ key = "stop" \/ (Has(session, "options") /\ Has(session.options, key))
           /\ Commit(updateSessionOptions(sessions, currentSessionId,
                                          IF DOMAIN newOptions = {} THEN <<>> ELSE newOptions,
                                          now),
                     currentSessionId)
    /\ alert' = ""
    /\ SidebarRenders
    /\ lastOp' = Op("handleResetOption", currentSessionId)
    /\ UNCHANGED <<isGenerating, isStreamingResponse, modelVars, download, uuidCount, now,
                   chatVars>>

\* GenerationReturns whose failure path leaves the in-flight marker set
GenerationReturns_MarkerKeptOnFailure(g, failed, content) ==
    LET task == gens[g]
        rest == RemoveAt(gens, g)
        ss == IF failed \/ Len(content) = 0 THEN sessions
              ELSE GeneratedUpdate(sessions, task.kind, task.sessionId, content, now)
        gen == IF failed THEN isGenerating ELSE [isGenerating EXCEPT ![task.kind] = Null]
    IN  /\ gens' = rest
        /\ IF /\ task.turn \in DOMAIN turns
              /\ \A j \in 1..Len(rest) : rest[j].turn # task.turn
           THEN Finally(task.turn, ss, gen)
           ELSE /\ Commit(ss, currentSessionId)
                /\ isGenerating' = gen
                /\ UNCHANGED <<isStreamingResponse, abortControllerRef, turns>>
        /\ SidebarRenders
        /\ lastOp' = Op(IF failed THEN "generationFailed" ELSE "generationDone",
                        task.sessionId)
        /\ UNCHANGED <<modelVars, download, alert, uuidCount, now, turnCount, aborted>>

\* GenerationReturns in which a failure abandons the other generations of the
\* same caller
GenerationReturns_FailureAbandonsOthers(g, failed, content) ==
    LET task == gens[g]
        rest == IF failed
                THEN SelectSeq(RemoveAt(gens, g), LAMBDA other : other.turn # task.turn)
                ELSE RemoveAt(gens, g)
        ss == IF failed \/ Len(content) = 0 THEN sessions
              ELSE GeneratedUpdate(sessions, task.kind, task.sessionId, content, now)
        gen == [isGenerating EXCEPT ![task.kind] = Null]
    IN  /\ gens' = rest
        /\ IF /\ task.turn \in DOMAIN turns
              /\ \A j \in 1..Len(rest) : rest[j].turn # task.turn
           THEN Finally(task.turn, ss, gen)
           ELSE /\ Commit(ss, currentSessionId)
                /\ isGenerating' = gen
                /\ UNCHANGED <<isStreamingResponse, abortControllerRef, turns>>
        /\ SidebarRenders
        /\ lastOp' = Op(IF failed THEN "generationFailed" ELSE "generationDone",
                        task.sessionId)
        /\ UNCHANGED <<modelVars, download, alert, uuidCount, now, turnCount, aborted>>

\* The ollama.chat of generation g returns (content) or throws (failed); the
\* result is applied, the finally clears the marker of the kind, and when it
\* was the last of the three a turn awaits, that turn runs its finally
GenerationReturns(g, failed, content) ==
    LET task == gens[g]
        rest == RemoveAt(gens, g)
        ss == IF failed \/ Len(content) = 0 THEN sessions
              ELSE GeneratedUpdate(sessions, task.kind, task.sessionId, content, now)
        gen == [isGenerating EXCEPT ![task.kind] = Null]
    IN  /\ gens' = rest
        /\ IF /\ task.turn \in DOMAIN turns
              /\ \A j \in 1..Len(rest) : rest[j].turn # task.turn
           THEN Finally(task.turn, ss, gen)
           ELSE /\ Commit(ss, currentSessionId)
                /\ isGenerating' = gen
                /\ UNCHANGED <<isStreamingResponse, abortControllerRef, turns>>
        /\ SidebarRenders
        /\ lastOp' = Op(IF failed THEN "generationFailed" ELSE "generationDone",
                        task.sessionId)
        /\ UNCHANGED <<modelVars, download, alert, uuidCount, now, turnCount, aborted>>

GenerateDone(g, content) == GenerationReturns(g, FALSE, content)

GenerateFailed(g) == GenerationReturns(g, TRUE, <<>>)

\* The state after startup once fetchModels has returned the model m1
InitChat ==
    /\ storage = Persisted(RepairedSessions(Rehydrated(NoData, <<>>, 0, 1).sessions,
                                            <<"m1">>, 1), "u1")
    /\ sessions = RepairedSessions(Rehydrated(NoData, <<>>, 0, 1).sessions, <<"m1">>, 1)
    /\ currentSessionId = "u1"
    /\ models = <<"m1">>
    /\ isLoadingModels = FALSE
    /\ now = 1
    /\ uuidCount = 1
    /\ isGenerating = NoGeneration
    /\ isStreamingResponse = FALSE
    /\ download = NoDownload
    /\ alert = ""
    /\ turns = <<>>
    /\ turnCount = 0
    /\ abortControllerRef = 0
    /\ aborted = {}
    /\ gens = <<>>
    /\ SearchBoxMounted
    /\ lastOp = Op("fetchModels", "")

NextChat ==
    \/ \E text \in SendTexts : HandleSend(text)
    \/ \E t \in DOMAIN turns : ResponseArrives(t)
    \/ \E t \in DOMAIN turns, chunk \in Chunks : ChunkArrives(t, chunk)
    \/ \E t \in DOMAIN turns : StreamEnds(t)
    \/ \E t \in DOMAIN turns, content \in Replies : ReplyArrives(t, content)
    \/ \E t \in DOMAIN turns, isAbortError \in BOOLEAN : TransportFails(t, isAbortError)
    \/ HandleStop
    \/ \E i \in 1..MaxTurns * 2 : HandleDelete(i)
    \/ UpdateStreamOption(FALSE)
    \/ \E g \in 1..Len(gens), content \in GenContents : GenerateDone(g, content)
    \/ \E g \in 1..Len(gens) : GenerateFailed(g)

SpecChat == InitChat /\ [][NextChat]_vars

\* The settings sidebar: generation options are set and reset on the session
\* shown, sessions are added and selected
NextOptions ==
    \/ \E key \in OptionKeys : \E value \in OptionValues(key) : HandleUpdateOption(key, value)
    \/ \E key \in OptionKeys : HandleResetOption(key)
    \/ AddSession
    \/ \E i \in 1..Len(sessions) : SelectSession(i)
    \/ Tick

SpecOptions == InitChat /\ [][NextOptions]_vars

\* Two sessions with conversations, as loaded from storage; the first is shown
ChatSessionA ==
    Spread(createNewSessionInternal("a", <<"m1">>, 1),
           [messages |-> <<Message("user", <<"h","i">>), Message("assistant", <<"y","o">>),
                           Message("user", <<"h","i">>)>>])

ChatSessionB ==
    Spread(createNewSessionInternal("b", <<"m1">>, 1),
           [messages |-> <<Message("user", <<"x">>), Message("assistant", <<"y","o">>)>>])

InitDelete ==
    /\ sessions = <<ChatSessionA, ChatSessionB>>
    /\ storage = Persisted(sessions, "a")
    /\ currentSessionId = "a"
    /\ models = <<"m1">>
    /\ isLoadingModels = FALSE
    /\ now = 1
    /\ uuidCount = 0
    /\ isGenerating = NoGeneration
    /\ isStreamingResponse = FALSE
    /\ download = NoDownload
    /\ alert = ""
    /\ turns = <<>>
    /\ turnCount = 0
    /\ abortControllerRef = 0
    /\ aborted = {}
    /\ gens = <<>>
    /\ SearchBoxMounted
    /\ lastOp = Op("fetchModels", "")

\* Messages are deleted from the session shown, and another session is selected
NextDelete ==
    \/ \E i \in 1..Len(ChatSessionA.messages) : HandleDelete(i)
    \/ \E i \in 1..Len(sessions) : SelectSession(i)
    \/ Tick

SpecDelete == InitDelete /\ [][NextDelete]_vars

\* Two turns: the session already has a name of its own (renamed in the
\* sidebar), so no turn starts a metadata generation; a send may be followed
\* by a regenerate
InitTurns ==
    /\ sessions = renameSession(RepairedSessions(Rehydrated(NoData, <<>>, 0, 1).sessions,
                                                 <<"m1">>, 1), "u1", <<"T">>, 1)
    /\ storage = Persisted(sessions, "u1")
    /\ currentSessionId = "u1"
    /\ models = <<"m1">>
    /\ isLoadingModels = FALSE
    /\ now = 1
    /\ uuidCount = 1
    /\ isGenerating = NoGeneration
    /\ isStreamingResponse = FALSE
    /\ download = NoDownload
    /\ alert = ""
    /\ turns = <<>>
    /\ turnCount = 0
    /\ abortControllerRef = 0
    /\ aborted = {}
    /\ gens = <<>>
    /\ SearchBoxMounted
    /\ lastOp = Op("renameSession", "u1")

NextTurns ==
    \/ \E text \in SendTexts : HandleSend(text)
    \/ HandleRegenerate
    \/ \E t \in DOMAIN turns : ResponseArrives(t)
    \/ \E t \in DOMAIN turns, chunk \in Chunks : ChunkArrives(t, chunk)
    \/ \E t \in DOMAIN turns : StreamEnds(t)
    \/ \E t \in DOMAIN turns, isAbortError \in BOOLEAN : TransportFails(t, isAbortError)
    \/ HandleStop

SpecTurns == InitTurns /\ [][NextTurns]_vars

\* The names typed in the sidebar's rename box
RenameTexts == {<<"T">>}

\* SessionsSidebar: handleSave of a name edit for a listed session
HandleSaveName(i, content) ==
    /\ IF Len(Trim(content)) > 0
       THEN Commit(renameSession(sessions, sessions[i].id, Trim(content), now),
                   currentSessionId)
       ELSE UNCHANGED <<sessions, currentSessionId, storage>>
    /\ alert' = ""
    /\ SidebarRenders
    /\ lastOp' = Op("renameSession", sessions[i].id)
    /\ UNCHANGED <<isGenerating, isStreamingResponse, modelVars, download, uuidCount, now,
                   chatVars>>

\* SessionsSidebar: the generate button of a kind for a listed session
\* (disabled while the marker of the kind holds that session's id); the call
\* runs up to its await of ollama.chat
GenerateFromSidebar(kind, i) ==
    /\ isGenerating[kind] # sessions[i].id
    /\ IF CanGenerate(sessions, sessions[i].id)
       THEN /\ Commit(sessions, currentSessionId)
            /\ isGenerating' = [isGenerating EXCEPT ![kind] = sessions[i].id]
            /\ gens' = Append(gens, [kind |-> kind, sessionId |-> sessions[i].id,
                                     turn |-> 0])
       ELSE UNCHANGED <<sessions, currentSessionId, storage, isGenerating, gens>>
    /\ alert' = ""
    /\ SidebarRenders
    /\ lastOp' = Op("generateFromSidebar", sessions[i].id)
    /\ UNCHANGED <<isStreamingResponse, modelVars, download, uuidCount, now, turns,
                   turnCount, abortControllerRef, aborted>>

\* A send turn together with the sidebar's rename and generate-name button
NextMeta ==
    \/ \E text \in SendTexts : HandleSend(text)
    \/ \E t \in DOMAIN turns : ResponseArrives(t)
    \/ \E t \in DOMAIN turns, chunk \in Chunks : ChunkArrives(t, chunk)
    \/ \E t \in DOMAIN turns : StreamEnds(t)
    \/ \E t \in DOMAIN turns, isAbortError \in BOOLEAN : TransportFails(t, isAbortError)
    \/ HandleStop
    \/ \E i \in 1..Len(sessions), content \in RenameTexts : HandleSaveName(i, content)
    \/ \E i \in 1..Len(sessions) : GenerateFromSidebar("name", i)
    \/ \E g \in 1..Len(gens), content \in GenContents : GenerateDone(g, content)
    \/ \E g \in 1..Len(gens) : GenerateFailed(g)

SpecMeta == InitChat /\ [][NextMeta]_vars

\* An outstanding ollama.chat of a generation of the kind returns or throws
GenerationOfKindReturns(kind) ==
    \E g \in 1..Len(gens) :
        /\ gens[g].kind = kind
        /\ \/ \E content \in GenContents : GenerateDone(g, content)
           \/ GenerateFailed(g)

\* SpecMeta in which every awaited ollama.chat of a generation eventually settles
SpecMetaLive == SpecMeta /\ \A kind \in Kinds : WF_vars(GenerationOfKindReturns(kind))

\* Send and regenerate turns of a session that still has the default name, so
\* that a turn's reply is followed by the metadata generations it awaits; a
\* generation returns an empty text or fails, which leaves the name as it is
NextIdle ==
    \/ \E text \in SendTexts : HandleSend(text)
    \/ HandleRegenerate
    \/ \E t \in DOMAIN turns : ResponseArrives(t)
    \/ \E t \in DOMAIN turns, chunk \in Chunks : ChunkArrives(t, chunk)
    \/ \E t \in DOMAIN turns : StreamEnds(t)
    \/ \E t \in DOMAIN turns, isAbortError \in BOOLEAN : TransportFails(t, isAbortError)
    \/ HandleStop
    \/ \E g \in 1..Len(gens) : GenerateDone(g, <<>>)
    \/ \E g \in 1..Len(gens) : GenerateFailed(g)

SpecIdle == InitChat /\ [][NextIdle]_vars

\* The awaited client.chat of turn t, or the iterator it returned, settles:
\* it resolves, yields, ends or throws
TransportReturns(t) ==
    /\ t \in DOMAIN turns
    /\ \/ ResponseArrives(t)
       \/ \E chunk \in Chunks : ChunkArrives(t, chunk)
       \/ StreamEnds(t)
       \/ \E isAbortError \in BOOLEAN : TransportFails(t, isAbortError)

\* An outstanding ollama.chat of a generation of the kind awaited by turn t
\* returns or throws
GenerationOfTurnReturns(kind, t) ==
    \E g \in 1..Len(gens) :
        /\ gens[g].kind = kind
        /\ gens[g].turn = t
        /\ \/ GenerateDone(g, <<>>)
           \/ GenerateFailed(g)

\* SpecIdle in which every awaited call of the model server eventually settles
SpecIdleLive ==
    /\ SpecIdle
    /\ \A t \in 1..(MaxTurns + MaxRegenerations) :
        /\ WF_vars(TransportReturns(t))
        /\ \A kind \in Kinds : WF_vars(GenerationOfTurnReturns(kind, t))

\* A stored session with a name of its own whose conversation ends with a
\* user message, the assistant's reply to it having been deleted
TitledSession == Spread(ChatSessionA, [name |-> <<"T">>])

InitRace ==
    /\ sessions = <<TitledSession>>
    /\ storage = Persisted(sessions, "a")
    /\ currentSessionId = "a"
    /\ models = <<"m1">>
    /\ isLoadingModels = FALSE
    /\ now = 1
    /\ uuidCount = 0
    /\ isGenerating = NoGeneration
    /\ isStreamingResponse = FALSE
    /\ download = NoDownload
    /\ alert = ""
    /\ turns = <<>>
    /\ turnCount = 0
    /\ abortControllerRef = 0
    /\ aborted = {}
    /\ gens = <<>>
    /\ SearchBoxMounted
    /\ lastOp = Op("fetchModels", "")

\* Send and regenerate turns during which messages of the session are deleted
NextRace ==
    \/ \E text \in SendTexts : HandleSend(text)
    \/ HandleRegenerate
    \/ \E t \in DOMAIN turns : ResponseArrives(t)
    \/ \E t \in DOMAIN turns, chunk \in Chunks : ChunkArrives(t, chunk)
    \/ \E t \in DOMAIN turns : StreamEnds(t)
    \/ \E t \in DOMAIN turns, isAbortError \in BOOLEAN : TransportFails(t, isAbortError)
    \/ \E i \in 1..(Len(TitledSession.messages) + 2) : HandleDelete(i)

SpecRace == InitRace /\ [][NextRace]_vars

\* The stored session is shown while the model server is unreachable, so that
\* a session added now has no model
InitSend ==
    /\ sessions = <<TitledSession>>
    /\ storage = Persisted(sessions, "a")
    /\ currentSessionId = "a"
    /\ models = <<>>
    /\ isLoadingModels = FALSE
    /\ now = 1
    /\ uuidCount = 0
    /\ isGenerating = NoGeneration
    /\ isStreamingResponse = FALSE
    /\ download = NoDownload
    /\ alert = ""
    /\ turns = <<>>
    /\ turnCount = 0
    /\ abortControllerRef = 0
    /\ aborted = {}
    /\ gens = <<>>
    /\ SearchBoxMounted
    /\ lastOp = Op("fetchModelsFailed", "")

\* Send turns in sessions with and without a model
NextSend ==
    \/ \E text \in SendTexts : HandleSend(text)
    \/ \E t \in DOMAIN turns : ResponseArrives(t)
    \/ \E t \in DOMAIN turns, chunk \in Chunks : ChunkArrives(t, chunk)
    \/ \E t \in DOMAIN turns : StreamEnds(t)
    \/ \E t \in DOMAIN turns, isAbortError \in BOOLEAN : TransportFails(t, isAbortError)
    \/ HandleStop
    \/ AddSession
    \/ \E i \in 1..Len(sessions) : SelectSession(i)
    \/ Tick

SpecSend == InitSend /\ [][NextSend]_vars

\* A stored conversation whose model is not set
NoModelSession == Spread(ChatSessionB, [model |-> ""])

\* Two stored conversations, the second without a model, shown while the
\* model server is unreachable
InitGenerate ==
    /\ sessions = <<ChatSessionA, NoModelSession>>
    /\ storage = Persisted(sessions, "a")
    /\ currentSessionId = "a"
    /\ models = <<>>
    /\ isLoadingModels = FALSE
    /\ now = 1
    /\ uuidCount = 0
    /\ isGenerating = NoGeneration
    /\ isStreamingResponse = FALSE
    /\ download = NoDownload
    /\ alert = ""
    /\ turns = <<>>
    /\ turnCount = 0
    /\ abortControllerRef = 0
    /\ aborted = {}
    /\ gens = <<>>
    /\ SearchBoxMounted
    /\ lastOp = Op("fetchModelsFailed", "")

\* The sidebar's generate buttons and delete button, and a send turn whose
\* session may be deleted before the turn asks for its metadata; a generation
\* returns an empty text or fails
NextGenerate ==
    \/ \E kind \in Kinds : \E i \in 1..Len(sessions) : GenerateFromSidebar(kind, i)
    \/ \E g \in 1..Len(gens) : GenerateDone(g, <<>>)
    \/ \E g \in 1..Len(gens) : GenerateFailed(g)
    \/ \E i \in 1..Len(sessions) : DeleteSession(i)
    \/ \E text \in SendTexts : HandleSend(text)
    \/ \E t \in DOMAIN turns : ResponseArrives(t)
    \/ \E t \in DOMAIN turns : StreamEnds(t)

SpecGenerate == InitGenerate /\ [][NextGenerate]_vars

\* Names typed in the sidebar's rename box, and replies of the model to the
\* request for a name: one that is empty once quotes and the final dot are
\* removed, and one that leaves a name
RenameInputs == {<<"T">>, <<" ">>, <<>>, <<" ", "N", " ">>}

NameReplies == {<<"'", ".">>, <<" ", "\"", "U", "\"", ".">>}

\* The sidebar's rename box and generate-name button over two stored
\* conversations, of which the first has a model
NextRename ==
    \/ \E i \in 1..Len(sessions), content \in RenameInputs : HandleSaveName(i, content)
    \/ \E i \in 1..Len(sessions) : GenerateFromSidebar("name", i)
    \/ \E g \in 1..Len(gens), content \in NameReplies : GenerateDone(g, content)
    \/ \E g \in 1..Len(gens) : GenerateFailed(g)
    \/ Tick

SpecRename == InitGenerate /\ [][NextRename]_vars

\* Model names given to updateSessionModel: one the registry has and one it
\* does not have
ModelNames == {"m1", "m9"}

\* The settings of the session shown are changed, over two stored conversations
NextUpdate ==
    \/ \E model \in ModelNames : UpdateSessionModel(model)
    \/ \E text \in PromptTexts : UpdateSystemPrompt(text)
    \/ \E i \in 1..Len(sessions) : SelectSession(i)
    \/ Tick

SpecUpdate == InitDelete /\ [][NextUpdate]_vars

\* The most generations the sidebar's buttons are pressed for at a time
MaxGenerations == 2

\* The generate buttons of the sidebar over two stored conversations that both
\* have a model
NextMarker ==
    \/ /\ Len(gens) < MaxGenerations
       /\ \E kind \in Kinds : \E i \in 1..Len(sessions) : GenerateFromSidebar(kind, i)
    \/ \E g \in 1..Len(gens), content \in GenContents : GenerateDone(g, content)
    \/ \E g \in 1..Len(gens) : GenerateFailed(g)

SpecMarker == InitDelete /\ [][NextMarker]_vars

\* A send turn and its metadata generations, during which sessions are deleted
\* in the sidebar
NextOrphan ==
    \/ \E text \in SendTexts : HandleSend(text)
    \/ \E t \in DOMAIN turns : ResponseArrives(t)
    \/ \E t \in DOMAIN turns, chunk \in Chunks : ChunkArrives(t, chunk)
    \/ \E t \in DOMAIN turns : StreamEnds(t)
    \/ \E t \in DOMAIN turns, isAbortError \in BOOLEAN : TransportFails(t, isAbortError)
    \/ \E i \in 1..Len(sessions) : DeleteSession(i)
    \/ \E g \in 1..Len(gens), content \in GenContents : GenerateDone(g, content)
    \/ \E g \in 1..Len(gens) : GenerateFailed(g)

SpecOrphan == InitDelete /\ [][NextOrphan]_vars

-----------------------------------------------------------------------------
(* Search (Search.tsx): the query parser, the filter and the SearchBox *)

UpperCase == <<"A", "B", "C", "D", "E", "F", "G", "H", "I", "J", "K", "L", "M", "N", "O", "P", "Q", "R", "S", "T", "U", "V", "W", "X", "Y", "Z">>
LowerCase == <<"a", "b", "c", "d", "e", "f", "g", "h", "i", "j", "k", "l", "m", "n", "o", "p", "q", "r", "s", "t", "u", "v", "w", "x", "y", "z">>

\* String.prototype.toLowerCase
toLowerCase(text) ==
    [i \in 1..Len(text) |->
        IF \E k \in 1..Len(UpperCase) : UpperCase[k] = text[i]
        THEN LowerCase[CHOOSE k \in 1..Len(UpperCase) : UpperCase[k] = text[i]]
        ELSE text[i]]

\* Whether piece stands at position p of text
StartsAt(text, p, piece) ==
    /\ p + Len(piece) - 1 <= Len(text)
    /\ SubSeq(text, p, p + Len(piece) - 1) = piece

\* String.prototype.indexOf, counted from 1; 0 when piece does not occur
IndexOf(text, piece) ==
    IF \E p \in 1..(Len(text) + 1) : StartsAt(text, p, piece)
    THEN CHOOSE p \in 1..(Len(text) + 1) :
            /\ StartsAt(text, p, piece)
            /\ \A r \in 1..(p - 1) : ~StartsAt(text, r, piece)
    ELSE 0

\* String.prototype.includes
Includes(text, piece) == IndexOf(text, piece) # 0

\* text.replace(piece, ''), piece a string: the first occurrence is removed
ReplaceFirst(text, piece) ==
    IF IndexOf(text, piece) = 0 THEN text
    ELSE SubSeq(text, 1, IndexOf(text, piece) - 1)
         \o SubSeq(text, IndexOf(text, piece) + Len(piece), Len(text))

\* The keys of SearchQuery.operators, in the order of the pattern's alternation
OperatorKeys == <<"system", "name", "tag", "note", "in", "type">>

\* The same keys as they are spelled in a query
OperatorNames ==
    <<<<"s", "y", "s", "t", "e", "m">>,
      <<"n", "a", "m", "e">>,
      <<"t", "a", "g">>,
      <<"n", "o", "t", "e">>,
      <<"i", "n">>,
      <<"t", "y", "p", "e">>>>

\* undefined, the initial value of operators.type
Undefined == <<"<undefined>">>

BOOKMARKED == <<"b", "o", "o", "k", "m", "a", "r", "k", "e", "d">>
FAVORITE == <<"f", "a", "v", "o", "r", "i", "t", "e">>

\* (system|name|tag|note|in|type): at position p: the alternative, 0 if none
OperatorAt(text, p) ==
    IF \E k \in 1..Len(OperatorNames) : StartsAt(text, p, OperatorNames[k] \o <<":">>)
    THEN CHOOSE k \in 1..Len(OperatorNames) :
            StartsAt(text, p, OperatorNames[k] \o <<":">>)
    ELSE 0

\* "([^"]+)" at position q: the position of the closing quote, 0 if the
\* alternative fails
QuotedEnd(text, q) ==
    IF /\ q <= Len(text)
       /\ text[q] = "\""
       /\ \E j \in (q + 2)..Len(text) :
            text[j] = "\"" /\ \A i \in (q + 1)..(j - 1) : text[i] # "\""
    THEN CHOOSE j \in (q + 2)..Len(text) :
            text[j] = "\"" /\ \A i \in (q + 1)..(j - 1) : text[i] # "\""
    ELSE 0

\* (\S+) at position q: the last position of the run, 0 if the alternative fails
UnquotedEnd(text, q) ==
    IF q > Len(text) \/ IsWhitespace(text[q]) THEN 0
    ELSE CHOOSE j \in q..Len(text) :
            /\ \A i \in q..j : ~IsWhitespace(text[i])
            /\ j = Len(text) \/ IsWhitespace(text[j + 1])

NoMatch == [found |-> FALSE]

\* operatorPattern tried at position p: the operator, the value
\* (quotedValue || unquotedValue), fullMatch and the position of its last
\* character
MatchAt(text, p) ==
    IF OperatorAt(text, p) = 0 THEN NoMatch
    ELSE LET k == OperatorAt(text, p)
             q == p + Len(OperatorNames[k]) + 1
         IN  IF QuotedEnd(text, q) # 0
             THEN [found |-> TRUE, operator |-> OperatorKeys[k],
                   value |-> SubSeq(text, q + 1, QuotedEnd(text, q) - 1),
                   fullMatch |-> SubSeq(text, p, QuotedEnd(text, q)),
                   lastIndex |-> QuotedEnd(text, q)]
             ELSE IF UnquotedEnd(text, q) # 0
             THEN [found |-> TRUE, operator |-> OperatorKeys[k],
                   value |-> SubSeq(text, q, UnquotedEnd(text, q)),
                   fullMatch |-> SubSeq(text, p, UnquotedEnd(text, q)),
                   lastIndex |-> UnquotedEnd(text, q)]
             ELSE NoMatch

\* operatorPattern.exec(input) with the pattern's lastIndex: the leftmost match
\* after it
Exec(input, lastIndex) ==
    IF \E p \in (lastIndex + 1)..Len(input) : MatchAt(input, p).found
    THEN MatchAt(input,
                 CHOOSE p \in (lastIndex + 1)..Len(input) :
                    /\ MatchAt(input, p).found
                    /\ \A r \in (lastIndex + 1)..(p - 1) : ~MatchAt(input, r).found)
    ELSE NoMatch

\* OperatorsWith that keeps the value an operator already has
OperatorsWith_FirstWins(operators, match) ==
    IF match.operator = "type"
    THEN IF toLowerCase(match.value) \in {BOOKMARKED, FAVORITE}
            /\ operators["type"] = Undefined
         THEN [operators EXCEPT !["type"] = toLowerCase(match.value)]
         ELSE operators
    ELSE IF operators[match.operator] = <<>>
    THEN [operators EXCEPT ![match.operator] = match.value]
    ELSE operators

\* The body of the while loop for one match: the operators after it
OperatorsWith(operators, match) ==
    IF match.operator = "type"
    THEN IF toLowerCase(match.value) \in {BOOKMARKED, FAVORITE}
         THEN [operators EXCEPT !["type"] = toLowerCase(match.value)]
         ELSE operators
    ELSE [operators EXCEPT ![match.operator] = match.value]

\* The while loop of parseSearchQuery from lastIndex on
RECURSIVE ParseLoop(_, _, _, _)
ParseLoop(input, lastIndex, operators, text) ==
    LET match == Exec(input, lastIndex)
    IN  IF ~match.found THEN [operators |-> operators, text |-> text]
        ELSE ParseLoop(input, match.lastIndex, OperatorsWith(operators, match),
                       Trim(ReplaceFirst(text, match.fullMatch)))

InitialOperators ==
    [k \in {OperatorKeys[i] : i \in 1..Len(OperatorKeys)} |->
        IF k = "type" THEN Undefined ELSE <<>>]

parseSearchQuery(input) ==
    LET parsed == ParseLoop(input, 0, InitialOperators, input)
    IN  [raw |-> input,
         text |-> parsed.text,
         operators |-> [k \in {x \in DOMAIN parsed.operators : parsed.operators[x] # <<>>}
                           |-> parsed.operators[k]]]

\* query.operators[k] read as a condition: a missing key, undefined and ''
\* are falsy
OperatorSet(query, k) ==
    /\ k \in DOMAIN query.operators
    /\ query.operators[k] # Undefined
    /\ query.operators[k] # <<>>

searchMessages(messages, text) ==
    \E i \in 1..Len(messages) :
        Includes(toLowerCase(messages[i].content), toLowerCase(text))

\* The callback of filterSessions with the type test left out
SessionFilter_IgnoresType(session, query) ==
    /\ OperatorSet(query, "system")
         => Includes(toLowerCase(session.systemPrompt), toLowerCase(query.operators["system"]))
    /\ OperatorSet(query, "name")
         => Includes(toLowerCase(session.name), toLowerCase(query.operators["name"]))
    /\ OperatorSet(query, "tag")
         => \E i \in 1..Len(session.tags) :
                Includes(toLowerCase(session.tags[i]), toLowerCase(query.operators["tag"]))
    /\ OperatorSet(query, "note")
         => Includes(toLowerCase(session.notes), toLowerCase(query.operators["note"]))
    /\ OperatorSet(query, "in") => searchMessages(session.messages, query.operators["in"])
    /\ \/ query.text = <<>>
       \/ Includes(toLowerCase(session.name), toLowerCase(query.text))
       \/ \E i \in 1..Len(session.tags) :
             Includes(toLowerCase(session.tags[i]), toLowerCase(query.text))
       \/ Includes(toLowerCase(session.notes), toLowerCase(query.text))
       \/ searchMessages(session.messages, query.text)

\* The callback filterSessions gives to sessions.filter
SessionFilter(session, query) ==
    IF /\ OperatorSet(query, "system")
       /\ ~Includes(toLowerCase(session.systemPrompt), toLowerCase(query.operators["system"]))
    THEN FALSE
    ELSE IF /\ OperatorSet(query, "name")
            /\ ~Includes(toLowerCase(session.name), toLowerCase(query.operators["name"]))
    THEN FALSE
    ELSE IF /\ OperatorSet(query, "tag")
            /\ ~\E i \in 1..Len(session.tags) :
                   Includes(toLowerCase(session.tags[i]), toLowerCase(query.operators["tag"]))
    THEN FALSE
    ELSE IF /\ OperatorSet(query, "note")
            /\ ~Includes(toLowerCase(session.notes), toLowerCase(query.operators["note"]))
    THEN FALSE
    ELSE IF /\ OperatorSet(query, "in")
            /\ ~searchMessages(session.messages, query.operators["in"])
    THEN FALSE
    ELSE IF /\ OperatorSet(query, "type")
            /\ \/ query.operators["type"] = BOOKMARKED /\ ~session.isBookmarked
               \/ query.operators["type"] = FAVORITE /\ ~session.isFavorite
    THEN FALSE
    ELSE IF query.text = <<>> THEN TRUE
    ELSE IF Includes(toLowerCase(session.name), toLowerCase(query.text)) THEN TRUE
    ELSE IF \E i \in 1..Len(session.tags) :
                Includes(toLowerCase(session.tags[i]), toLowerCase(query.text))
    THEN TRUE
    ELSE IF Includes(toLowerCase(session.notes), toLowerCase(query.text)) THEN TRUE
    ELSE searchMessages(session.messages, query.text)

\* filterSessions that returns the sessions it keeps last to first
filterSessions_Reversed(ss, query) ==
    IF query.raw = <<>> THEN ss
    ELSE [i \in 1..Len(SelectSeq(ss, LAMBDA session : SessionFilter(session, query))) |->
            SelectSeq(ss, LAMBDA session : SessionFilter(session, query))
                [Len(SelectSeq(ss, LAMBDA session : SessionFilter(session, query))) + 1 - i]]

filterSessions(ss, query) ==
    IF query.raw = <<>> THEN ss
    ELSE SelectSeq(ss, LAMBDA session : SessionFilter(session, query))

\* SearchBox: the user edits the input to newValue
HandleChange(newValue) ==
    /\ searchText' = newValue
    /\ isBookmarkFilter' =
         (OperatorSet(parseSearchQuery(newValue), "type")
          /\ parseSearchQuery(newValue).operators["type"] = BOOKMARKED)
    /\ isFavoriteFilter' =
         (OperatorSet(parseSearchQuery(newValue), "type")
          /\ parseSearchQuery(newValue).operators["type"] = FAVORITE)
    /\ filtered' = filterSessions(sessions, parseSearchQuery(newValue))
    /\ alert' = ""
    /\ lastOp' = Op("handleChange", "")
    /\ UNCHANGED <<sessions, currentSessionId, storage, isGenerating, isStreamingResponse,
                   modelVars, download, uuidCount, now, chatVars, filter>>

\* SearchBox: the clear button, shown while the input is not empty
HandleClear ==
    /\ searchText # <<>>
    /\ searchText' = <<>>
    /\ isBookmarkFilter' = FALSE
    /\ isFavoriteFilter' = FALSE
    /\ filtered' = sessions
    /\ alert' = ""
    /\ lastOp' = Op("handleClear", "")
    /\ UNCHANGED <<sessions, currentSessionId, storage, isGenerating, isStreamingResponse,
                   modelVars, download, uuidCount, now, chatVars, filter>>

\* SessionsSidebar: one of the quick filter buttons; the effect on
\* [sessions, filter] then displays the quick-filtered sessions
SetFilter(f) ==
    /\ filter' = f
    /\ filtered' = IF f # filter THEN QuickFiltered(sessions, f) ELSE filtered
    /\ alert' = ""
    /\ lastOp' = Op("setFilter", f)
    /\ UNCHANGED <<sessions, currentSessionId, storage, isGenerating, isStreamingResponse,
                   modelVars, download, uuidCount, now, chatVars, searchText,
                   isBookmarkFilter, isFavoriteFilter>>

\* Sessions as the sidebar's editors, the chat and the flags leave them
SearchSessionA ==
    Spread(createNewSessionInternal("a", <<"m1">>, 1),
           [name |-> <<"W", "o", "r", "k", " ", "L", "o", "g">>,
            tags |-> <<<<"H", "o", "m", "e", "w", "o", "r", "k">>>>,
            messages |-> <<Message("user", <<"h", "i">>)>>,
            isBookmarked |-> TRUE])
SearchSessionB ==
    Spread(createNewSessionInternal("b", <<"m1">>, 1),
           [tags |-> <<<<"f", "u", "n">>>>,
            notes |-> <<"m", "y", " ", "w", "o", "r", "k">>,
            isBookmarked |-> TRUE,
            isFavorite |-> TRUE])
SearchSessionC ==
    Spread(createNewSessionInternal("c", <<"m1">>, 1),
           [name |-> <<"x">>,
            systemPrompt |-> <<"S", "y", "s">>,
            messages |-> <<Message("user", <<"W", "O", "R", "K", " ", "i", "t">>),
                           Message("assistant", <<"o", "k">>)>>,
            isFavorite |-> TRUE])
SearchSessionD ==
    Spread(createNewSessionInternal("d", <<"m1">>, 1),
           [name |-> <<"i", "d", "l", "e">>,
            tags |-> <<<<"b", " ", "c">>, <<"w", "o", "r", "k">>>>,
            notes |-> <<"n">>])

SearchSessions == <<SearchSessionA, SearchSessionB, SearchSessionC, SearchSessionD>>

\* The collections searched: up to MaxSessions of the sessions above, in any
\* order
SearchCollections ==
    {[i \in 1..Len(order) |-> SearchSessions[order[i]]] :
        order \in {o \in UNION {[1..n -> 1..Len(SearchSessions)] : n \in 1..MaxSessions} :
                    \A i, j \in DOMAIN o : i # j => o[i] # o[j]}}

TypeBookmarkedTagWork == <<"t", "y", "p", "e", ":", "b", "o", "o", "k", "m", "a", "r", "k", "e", "d", " ", "t", "a", "g", ":", "w", "o", "r", "k">>

\* What the user may type in the search box
SearchInputs ==
    { <<>>,
      <<" ">>,
      <<"w", "o", "r", "k">>,
      <<"t", "y", "p", "e", ":", "b", "o", "o", "k", "m", "a", "r", "k", "e", "d", " ", "t", "a", "g", ":", "w", "o", "r", "k">>,
      <<"t", "y", "p", "e", ":", "F", "a", "v", "o", "r", "i", "t", "e">>,
      <<"t", "y", "p", "e", ":", "o", "t", "h", "e", "r">>,
      <<"T", "y", "p", "e", ":", "f", "a", "v", "o", "r", "i", "t", "e">>,
      <<"t", "a", "g", ":", "\"", "b", " ", "c", "\"">>,
      <<"n", "a", "m", "e", ":", "w", "o", "r", "k", " ", "i", "n", ":", "h", "i">>,
      <<"s", "y", "s", "t", "e", "m", ":", "s", "y", "s", " ", "n", "o", "t", "e", ":", "n">>,
      <<"t", "a", "g", ":", "w", "o", "r", "k", " ", "f", "u", "n">>,
      <<"t", "a", "g", ":", "f", "u", "n", " ", "t", "a", "g", ":", "w", "o", "r", "k">>,
      <<"i", "n", ":", "W", "O", "R", "K">>,
      <<"w", "i", "t", "h", "i", "n", ":", "o", "k">>,
      <<"t", "a", "g", ":", "\"", "\"", " ", "x">>,
      <<" ", "w", "o", "r", "k", " ">>,
      <<"m", "y", " ", "t", "a", "g", ":", "f", "u", "n", " ", "w", "o", "r", "k">>,
      <<"t", "y", "p", "e", ":", "f", "a", "v", "o", "r", "i", "t", "e", " ", "t", "y", "p", "e", ":", "o", "t", "h", "e", "r", " ", "x">>,
      <<"n", "a", "m", "e", ":", "a", " ", "t", "y", "p", "e", ":", "b", "o", "o", "k", "m", "a", "r", "k", "e", "d", " ", "n", "a", "m", "e", ":", "i", "d", "l", "e">> }

InitSearch ==
    /\ sessions \in SearchCollections
    /\ currentSessionId = sessions[1].id
    /\ storage = Persisted(sessions, currentSessionId)
    /\ models = <<"m1">>
    /\ isLoadingModels = FALSE
    /\ now = 1
    /\ uuidCount = 0
    /\ isGenerating = NoGeneration
    /\ isStreamingResponse = FALSE
    /\ download = NoDownload
    /\ alert = ""
    /\ turns = <<>>
    /\ turnCount = 0
    /\ abortControllerRef = 0
    /\ aborted = {}
    /\ gens = <<>>
    /\ SearchBoxMounted
    /\ lastOp = Op("importSessions", "")

NextSearch ==
    \/ \E newValue \in SearchInputs : HandleChange(newValue)
    \/ HandleClear

SpecSearch == InitSearch /\ [][NextSearch]_vars

\* The sidebar with its quick filter buttons, its search box and the bookmark
\* and star buttons of the sessions it displays
QuickFilters == {"all", "bookmarked", "favorites"}

SidebarInputs ==
    { <<>>,
      <<"w", "o", "r", "k">>,
      TypeBookmarkedTagWork }

IsDisplayed(session) == \E j \in 1..Len(filtered) : filtered[j].id = session.id

NextSidebar ==
    \/ \E newValue \in SidebarInputs : newValue # searchText /\ HandleChange(newValue)
    \/ HandleClear
    \/ \E f \in QuickFilters : SetFilter(f)
    \/ \E i \in 1..Len(sessions) : IsDisplayed(sessions[i]) /\ ToggleBookmark(i)
    \/ \E i \in 1..Len(sessions) : IsDisplayed(sessions[i]) /\ ToggleFavorite(i)

SpecSidebar == InitSearch /\ [][NextSidebar]_vars

----------------------------------------------------------------------------
(* Claims *)

\* C1: in every state reachable after startup the session collection holds at
\* least one session.
C1_CollectionNeverEmpty == Len(sessions) >= 1

\* C2: after every store operation currentSessionId is the id of a session of
\* the collection.
C2_CurrentNeverDangling == currentSessionId \in SessionIds(sessions)

\* C3: a restart that follows committed mutations rehydrates the session
\* collection and currentSessionId that were committed (memory equal to what
\* the last set() persisted), timestamps as time values.
C3_RestartRestoresCommitted ==
    [][(lastOp'.op = "restart" /\ storage = Persisted(sessions, currentSessionId))
        => (sessions' = sessions /\ currentSessionId' = currentSessionId)]_vars

UniqueIds(ss) == \A i, j \in 1..Len(ss) : i # j => ss[i].id # ss[j].id

\* C4: no two sessions of the collection share an id, and an operation that
\* updates sessions in place leaves every session's id as it was.
C4_IdsUniqueAndStable ==
    /\ [](UniqueIds(sessions))
    /\ [][(lastOp'.op \in {"toggleBookmark", "toggleFavorite", "setCurrentSessionId",
                           "fetchModels"})
          => \A i \in 1..Len(sessions) : sessions'[i].id = sessions[i].id]_vars


\* C5: for every session, toggling its bookmark twice returns isBookmarked to
\* its original value, toggling its favorite twice returns isFavorite to its
\* original value, and toggling one flag leaves the other flag of every
\* session as it was.
C5_TogglesInvolutiveIndependent ==
    \A i \in 1..Len(sessions) :
        LET id == sessions[i].id
            b1 == toggleBookmark(sessions, id, now)
            b2 == toggleBookmark(b1, id, now)
            f1 == toggleFavorite(sessions, id, now)
            f2 == toggleFavorite(f1, id, now)
        IN  /\ b2[i].isBookmarked = sessions[i].isBookmarked
            /\ f2[i].isFavorite = sessions[i].isFavorite
            /\ \A j \in 1..Len(sessions) :
                /\ b1[j].isFavorite = sessions[j].isFavorite
                /\ f1[j].isBookmarked = sessions[j].isBookmarked

\* session.options, an absent key read as the empty object
OptionsOf(s) == IF Has(s, "options") THEN s.options ELSE <<>>

\* Two sessions with the same id and the same value of every field
SameSession(s, o) ==
    /\ \A k \in {"id", "name", "systemPrompt", "messages", "model", "tags", "notes",
                 "isBookmarked", "isFavorite", "createdAt", "updatedAt"} : s[k] = o[k]
    /\ OptionsOf(s) = OptionsOf(o)

\* C6: importing the file that exportSessions wrote for a collection
\* reproduces that collection: the same ids in the same order and the same
\* value of every field.
C6_ExportImportRoundTrip ==
    (lastOp.op = "importDownload" /\ alert = "")
    => /\ Len(sessions) = Len(download.source)
       /\ \A i \in 1..Len(sessions) : SameSession(sessions[i], download.source[i])

\* The input the import accepts: an array of objects that each contain an id
\* and a name
ValidImportInput(file) ==
    /\ file.parses
    /\ file.isArray
    /\ \A i \in 1..Len(file.items) :
        /\ file.items[i].type = "object"
        /\ Has(file.items[i].obj, "id")
        /\ Has(file.items[i].obj, "name")

\* C7: importing input that is not an array of objects with an id and a name
\* raises an alert and leaves the collection, currentSessionId and the
\* persisted record unchanged.
C7_InvalidImportRejected ==
    [][\A file \in PickableFiles :
        (HandleFileChange(file) /\ ~ValidImportInput(file))
        => /\ alert' # ""
           /\ sessions' = sessions
           /\ currentSessionId' = currentSessionId
           /\ storage' = storage]_vars

C7_Witness ==
    /\ lastOp.op = "handleFileChange"
    /\ alert = "Invalid session backup file format."
    /\ Len(sessions) > 0

\* The fields of an import record that hold a value which is kept as it is
KeptFields == {"name", "systemPrompt", "messages", "model", "tags", "notes",
               "isBookmarked", "isFavorite", "options"}

\* C8: a record imported without tags, notes, flags or timestamps becomes a
\* session with empty tags, empty notes, both flags false and createdAt and
\* updatedAt equal to the import time, and every field the record carries is
\* kept.
C8_ImportNormalizesAndKeeps ==
    [][\A file \in PickableFiles :
        (HandleFileChange(file) /\ FileVerdict(file) = "import")
        => \A i \in 1..Len(file.items) :
            LET o == file.items[i].obj
                s == sessions'[i]
            IN  /\ ~Has(o, "tags") => s.tags = <<>>
                /\ ~Has(o, "notes") => s.notes = <<>>
                /\ ~Has(o, "isBookmarked") => s.isBookmarked = FALSE
                /\ ~Has(o, "isFavorite") => s.isFavorite = FALSE
                /\ ~Has(o, "createdAt") => s.createdAt = DateAt(now)
                /\ ~Has(o, "updatedAt") => s.updatedAt = DateAt(now)
                /\ \A k \in KeptFields \cap DOMAIN o : s[k] = o[k]]_vars

\* C9: a successful import replaces the collection: afterwards it holds
\* exactly the imported records in their order, none of the sessions it held
\* before, and currentSessionId is the id of the first imported record, or
\* null when the import is empty.
C9_ImportReplacesCollection ==
    [][\A file \in PickableFiles :
        (HandleFileChange(file) /\ FileVerdict(file) = "import")
        => /\ Len(sessions') = Len(file.items)
           /\ \A i \in 1..Len(file.items) :
                /\ sessions'[i].id = file.items[i].obj.id
                /\ sessions'[i].name = file.items[i].obj.name
           /\ currentSessionId' = IF Len(file.items) = 0 THEN Null
                                  ELSE file.items[1].obj.id]_vars

C9_Witness ==
    /\ lastOp.op = "handleFileChange"
    /\ alert = ""
    /\ Len(sessions) = 2
    /\ sessions[1].id = "b" /\ sessions[2].id = "a"
    /\ currentSessionId = "b"

\* C10: in a streamed send turn every chunk that passes the loop's stop test
\* is committed once, in arrival order, and the commit makes the last message
\* of the turn's session an assistant message whose content is the
\* concatenation of the chunks received so far; the end of the stream commits
\* nothing more, so the final message is the concatenation of all chunks.
C10_StreamCommitsAccumulate ==
    [][/\ \A t \in DOMAIN turns : \A chunk \in Chunks :
            (ChunkArrives(t, chunk) /\ ~StopSeen)
            => /\ turns'[t].received = Append(turns[t].received, chunk)
               /\ Last(MessagesOf(sessions', turns[t].session.id))
                    = Message("assistant", Flatten(turns'[t].received))
               /\ Len(MessagesOf(sessions', turns[t].session.id))
                    = IF Len(MessagesOf(sessions, turns[t].session.id)) = 0 THEN 1
                      ELSE Len(MessagesOf(sessions, turns[t].session.id))
       /\ \A t \in DOMAIN turns :
            StreamEnds(t)
            => MessagesOf(sessions', turns[t].session.id)
                 = MessagesOf(sessions, turns[t].session.id)]_vars

C10_Witness ==
    /\ lastOp.op = "streamEnd"
    /\ \E i \in 1..Len(sessions) :
        /\ Len(sessions[i].messages) = 2
        /\ sessions[i].messages[1] = Message("user", <<"h","i">>)
        /\ sessions[i].messages[2] =
             Message("assistant", <<"H","e","l","l","o"," ","w","o","r","l","d">>)
    /\ \E j \in 1..Len(gens) : gens[j].turn = 1

\* C11: when Stop has aborted a streamed turn after exactly two chunks were
\* committed, the step in which the stopped call delivers its next chunk or
\* its end keeps the session's messages (the last one holding the two
\* chunks' accumulated content), leaves isStreamingResponse false and issues
\* no name, tags or notes generation.
C11_StopKeepsContentNoMetadata ==
    [][\A t \in DOMAIN turns :
        (/\ t \in aborted
         /\ turns[t].pc = "streaming"
         /\ Len(turns[t].received) = 2
         /\ (StreamEnds(t) \/ \E chunk \in Chunks : ChunkArrives(t, chunk)))
        => /\ MessagesOf(sessions', turns[t].session.id)
                = MessagesOf(sessions, turns[t].session.id)
           /\ turns[t].streamedContent = Flatten(turns[t].received)
           /\ isStreamingResponse' = FALSE
           /\ gens' = gens
           /\ isGenerating' = isGenerating]_vars

\* C12: once Stop has aborted the signal of a turn's call, no chunk that call
\* delivers afterwards is committed: the step in which such a chunk arrives
\* leaves the messages of the turn's session as they were, also when another
\* turn was started in between.
C12_NoCommitAfterStop ==
    [][\A t \in DOMAIN turns : \A chunk \in Chunks :
        (ChunkArrives(t, chunk) /\ t \in aborted)
        => MessagesOf(sessions', turns[t].session.id)
             = MessagesOf(sessions, turns[t].session.id)]_vars

\* The turns awaiting their transport call or their chunks
AwaitingTransport == {t \in DOMAIN turns : turns[t].pc \in {"sending", "streaming"}}

\* C13: at most one turn is awaiting its transport call or its chunks at any
\* time.
C13_OneTurnAtATime == Cardinality(AwaitingTransport) <= 1

\* The name the store holds for a session id
NameOf(ss, sessionId) == ss[FindIndex(ss, sessionId)].name

\* C14: a turn that completes (end of its stream) while the session's name in
\* the store is not the default name issues no name, tags or notes
\* generation.
C14_NoMetadataAfterRename ==
    [][\A t \in DOMAIN turns :
        (/\ StreamEnds(t)
         /\ FindIndex(sessions, turns[t].session.id) # 0
         /\ NameOf(sessions, turns[t].session.id) # DEFAULT_SESSION_NAME)
        => gens' = gens /\ isGenerating' = isGenerating]_vars

\* C15: for every session and every kind, at most one generation of that kind
\* for that session is outstanding.
C15_OneGenerationPerKind ==
    \A g, h \in 1..Len(gens) :
        (gens[g].kind = gens[h].kind /\ gens[g].sessionId = gens[h].sessionId) => g = h


\* C16: a generateSessionName/Tags/Notes call that set its in-flight marker
\* clears it when its inference call returns, with content, with empty content
\* or by throwing; so a set marker is eventually none
C16_MarkerCleared ==
    /\ [][\A g \in 1..Len(gens) :
            (GenerateFailed(g) \/ \E content \in GenContents : GenerateDone(g, content))
            => isGenerating'[gens[g].kind] = Null]_vars
    /\ \A kind \in Kinds : (isGenerating[kind] # Null) ~> (isGenerating[kind] = Null)

\* all generations of a turn have returned, the last one by throwing
C16_Witness ==
    /\ lastOp.op = "generationFailed"
    /\ gens = <<>>
    /\ \A kind \in Kinds : isGenerating[kind] = Null


\* The generations other than g that the caller of g started with it
SiblingsOf(g) == {j \in 1..Len(gens) : j # g /\ gens[j].turn = gens[g].turn}

PlaceholderSlot(rec, msgs) == IF rec.kind = "send" THEN Len(msgs) ELSE rec.index

\* C18: when the call of a send or regenerate turn throws an error that is not
\* an AbortError, the slot of the turn's assistant placeholder holds an
\* assistant message before and the error marker text of the turn's kind
\* after, every other message is kept, isStreamingResponse is false and no
\* name, tags or notes generation is started.
C18_FailureWritesErrorMarker ==
    [][\A t \in DOMAIN turns :
        TransportFails(t, FALSE)
        => LET rec == turns[t]
               before == MessagesOf(sessions, rec.session.id)
               after == MessagesOf(sessions', rec.session.id)
               slot == PlaceholderSlot(rec, before)
           IN  /\ slot \in 1..Len(before)
               /\ before[slot].role = "assistant"
               /\ Len(after) = Len(before)
               /\ after[slot] = Message("assistant",
                                        IF rec.kind = "send" THEN ERROR_MARKER
                                        ELSE REGENERATE_ERROR_MARKER)
               /\ \A i \in 1..Len(before) : i # slot => after[i] = before[i]
               /\ isStreamingResponse' = FALSE
               /\ gens' = gens
               /\ isGenerating' = isGenerating]_vars


\* The entries of a model list
NamesOf(list) == {list[j] : j \in 1..Len(list)}

\* C19: when the registry goes from loading to loaded with at least one
\* model, every session whose model is empty or not in the list gets the first
\* model of the list and keeps its other fields but updatedAt, every session
\* with a listed model is unchanged, a repair is written to storage, and
\* afterwards every session's model is in the list.
C19_RegistryRepair ==
    [][\A list \in ModelLists :
        (FetchModelsDone(list) /\ Len(list) > 0)
        => /\ Len(sessions') = Len(sessions)
           /\ \A i \in 1..Len(sessions) :
                IF ModelOf(sessions[i]) \in NamesOf(list)
                THEN sessions'[i] = sessions[i]
                ELSE /\ sessions'[i].model = list[1]
                     /\ Without(Without(sessions'[i], "model"), "updatedAt")
                          = Without(Without(sessions[i], "model"), "updatedAt")
           /\ (\E i \in 1..Len(sessions) : ModelOf(sessions[i]) \notin NamesOf(list))
                => storage' = Persisted(sessions', currentSessionId)
           /\ currentSessionId' = currentSessionId
           /\ \A i \in 1..Len(sessions') : ModelOf(sessions'[i]) \in NamesOf(list)]_vars

\* the registry has just loaded the single model m1, and of two sessions, now
\* both on m1, one was touched after its creation and the repair is stored
C19_Witness ==
    /\ lastOp.op = "fetchModels"
    /\ models = <<"m1">>
    /\ ~isLoadingModels
    /\ Len(sessions) = 2
    /\ \A i \in 1..2 : ModelOf(sessions[i]) = "m1"
    /\ sessions[1].createdAt = sessions[1].updatedAt
    /\ sessions[2].createdAt # sessions[2].updatedAt
    /\ storage = Persisted(sessions, currentSessionId)


\* What C20 asks of a session for a parsed query: every operator present is
\* met, and free text, if any, occurs in the name, a tag, the notes or a message
SatisfiesQuery(session, query) ==
    /\ "system" \in DOMAIN query.operators
         => Includes(toLowerCase(session.systemPrompt), toLowerCase(query.operators["system"]))
    /\ "name" \in DOMAIN query.operators
         => Includes(toLowerCase(session.name), toLowerCase(query.operators["name"]))
    /\ "note" \in DOMAIN query.operators
         => Includes(toLowerCase(session.notes), toLowerCase(query.operators["note"]))
    /\ "tag" \in DOMAIN query.operators
         => \E i \in 1..Len(session.tags) :
                Includes(toLowerCase(session.tags[i]), toLowerCase(query.operators["tag"]))
    /\ "in" \in DOMAIN query.operators
         => \E i \in 1..Len(session.messages) :
                Includes(toLowerCase(session.messages[i].content),
                         toLowerCase(query.operators["in"]))
    /\ query.operators["type"] = BOOKMARKED => session.isBookmarked = TRUE
    /\ query.operators["type"] = FAVORITE => session.isFavorite = TRUE
    /\ query.text # <<>>
         => \/ Includes(toLowerCase(session.name), toLowerCase(query.text))
            \/ \E i \in 1..Len(session.tags) :
                  Includes(toLowerCase(session.tags[i]), toLowerCase(query.text))
            \/ Includes(toLowerCase(session.notes), toLowerCase(query.text))
            \/ \E i \in 1..Len(session.messages) :
                  Includes(toLowerCase(session.messages[i].content),
                           toLowerCase(query.text))

\* C20: the list filterSessions hands to onFilter for a typed query holds
\* exactly the sessions that meet every constraint of the parsed query
\* (system, name, note, tag, in, type) and, if free text remains, contain it in
\* the name, a tag, the notes or a message; for `type:bookmarked tag:work`
\* these are the bookmarked sessions with a tag containing "work".
C20_FilterIsConjunction ==
    [][\A newValue \in SearchInputs :
        HandleChange(newValue)
        => /\ filtered' = SelectSeq(sessions,
                                    LAMBDA session :
                                        SatisfiesQuery(session, parseSearchQuery(newValue)))
           /\ newValue = TypeBookmarkedTagWork
                => filtered' = SelectSeq(sessions,
                                         LAMBDA session :
                                            /\ session.isBookmarked = TRUE
                                            /\ \E i \in 1..Len(session.tags) :
                                                  Includes(toLowerCase(session.tags[i]),
                                                           <<"w", "o", "r", "k">>))]_vars

\* `type:bookmarked tag:work` was typed over two sessions, a bookmarked one
\* tagged Homework, which is kept, and one not kept
C20_Witness ==
    /\ lastOp.op = "handleChange"
    /\ searchText = TypeBookmarkedTagWork
    /\ Len(sessions) = 2
    /\ filtered = <<SearchSessionA>>

\* sub is full with some elements left out, the rest in their order
IsSubsequence(sub, full) ==
    \E pick \in [1..Len(sub) -> 1..Len(full)] :
        /\ \A i \in 1..Len(sub) : sub[i] = full[pick[i]]
        /\ \A i, j \in 1..Len(sub) : i < j => pick[i] < pick[j]

\* C21: the list filterSessions returns for a typed query is a subsequence of
\* the store's sessions in their order, the store's sessions are left as they
\* were, and for the empty query the list is the whole collection.
C21_FilterKeepsOrder ==
    [][\A newValue \in SearchInputs :
        HandleChange(newValue)
        => /\ IsSubsequence(filtered', sessions)
           /\ sessions' = sessions
           /\ newValue = <<>> => filtered' = sessions]_vars

\* the free text "work" was typed over two sessions and both are listed, in
\* the order of the collection
C21_Witness ==
    /\ lastOp.op = "handleChange"
    /\ searchText = <<"w", "o", "r", "k">>
    /\ Len(sessions) = 2
    /\ filtered = sessions

\* The operator tokens of a query, in the order they are matched
RECURSIVE TokensFrom(_, _)
TokensFrom(input, lastIndex) ==
    IF Exec(input, lastIndex).found
    THEN <<Exec(input, lastIndex)>> \o TokensFrom(input, Exec(input, lastIndex).lastIndex)
    ELSE <<>>

\* The tokens of an operator that count: for type, those whose value is
\* bookmarked or favorite in any case
CountedTokens(input, key) ==
    SelectSeq(TokensFrom(input, 0),
              LAMBDA token :
                  /\ token.operator = key
                  /\ key = "type" => toLowerCase(token.value) \in {BOOKMARKED, FAVORITE})

\* C22: for the query last typed, every operator with several tokens has the
\* value of its last token (type: of its last token with the value
\* bookmarked or favorite, in lower case), an operator without a token is not
\* set, and a type token with another value sets no type and its text is not
\* in the free-text term.
C22_LastOperatorWins ==
    LET query == parseSearchQuery(searchText)
    IN  /\ \A i \in 1..Len(OperatorKeys) :
            LET key == OperatorKeys[i]
                tokens == CountedTokens(searchText, key)
            IN  IF Len(tokens) > 0
                THEN /\ key \in DOMAIN query.operators
                     /\ query.operators[key] =
                          IF key = "type" THEN toLowerCase(tokens[Len(tokens)].value)
                          ELSE tokens[Len(tokens)].value
                ELSE ~OperatorSet(query, key)
        /\ \A i \in 1..Len(TokensFrom(searchText, 0)) :
            LET token == TokensFrom(searchText, 0)[i]
            IN  (/\ token.operator = "type"
                 /\ toLowerCase(token.value) \notin {BOOKMARKED, FAVORITE})
                => ~Includes(query.text, token.fullMatch)

\* `tag:fun tag:work` was typed over a session tagged fun and one tagged
\* work, and only the second is listed
C22_Witness ==
    /\ lastOp.op = "handleChange"
    /\ searchText = <<"t", "a", "g", ":", "f", "u", "n", " ", "t", "a", "g", ":", "w", "o", "r", "k">>
    /\ sessions = <<SearchSessionB, SearchSessionD>>
    /\ filtered = <<SearchSessionD>>

\* The positions of a query that lie inside one of its operator tokens
TokenPositions(input) ==
    {p \in 1..Len(input) :
        \E i \in 1..Len(TokensFrom(input, 0)) :
            LET token == TokensFrom(input, 0)[i]
            IN  /\ p > token.lastIndex - Len(token.fullMatch)
                /\ p <= token.lastIndex}

\* The query with the characters of its operator tokens left out
WithoutTokens(input) ==
    LET kept == (1..Len(input)) \ TokenPositions(input)
    IN  [i \in 1..Cardinality(kept) |->
            input[CHOOSE p \in kept : Cardinality({r \in kept : r <= p}) = i]]

\* C23: for the query last typed, the free-text term of the parsed query is
\* the query with every operator token removed, trimmed of leading and trailing
\* whitespace, also when the query holds no operator token.
C23_FreeTextIsTrimmedResidue ==
    parseSearchQuery(searchText).text = Trim(WithoutTokens(searchText))

\* C24: when the page is reloaded over a stored record that parses, an empty
\* loaded collection gives one synthesized default session, which is current;
\* a stored current id that is the id of no loaded session gives the first
\* loaded session's id; otherwise the stored current id is kept; and the
\* loaded sessions keep their ids and order.
C24_RehydrationRule ==
    [][(Restart /\ ~ParseFails(storage))
       => LET loaded == IF storage.present THEN storage.sessions ELSE <<>>
          IN  IF Len(loaded) = 0
              THEN /\ Len(sessions') = 1
                   /\ sessions'[1].name = DEFAULT_SESSION_NAME
                   /\ sessions'[1].messages = <<>>
                   /\ currentSessionId' = sessions'[1].id
              ELSE /\ Len(sessions') = Len(loaded)
                   /\ \A i \in 1..Len(loaded) : sessions'[i].id = loaded[i].id
                   /\ currentSessionId' =
                        IF \E i \in 1..Len(loaded) : loaded[i].id = storage.currentSessionId
                        THEN storage.currentSessionId
                        ELSE loaded[1].id]_vars

\* the page was reloaded over two stored sessions and a stored current id of
\* neither, and the first session is current
C24_Witness ==
    /\ lastOp.op = "restart"
    /\ storage.present
    /\ Len(storage.sessions) = 2
    /\ storage.currentSessionId \notin SessionIds(sessions)
    /\ currentSessionId = sessions[1].id

\* C25: after the page is loaded over a stored value that does not parse, the
\* store holds exactly one session, a synthesized default one, and it is
\* current.
C25_LoadFailsSoftly ==
    (lastOp.op \in {"startup", "restart"} /\ ParseFails(storage))
    => /\ Len(sessions) = 1
       /\ sessions[1].name = DEFAULT_SESSION_NAME
       /\ currentSessionId = sessions[1].id

\* The value a stored record has for a key, or the given default if the key is
\* missing
StoredOr(record, key, default) == IF Has(record, key) THEN record[key] ELSE default

\* C26: after the page is loaded over stored session records, every session
\* has the tags, notes and flags of its record, with a missing tags the empty
\* list, a missing notes the empty string and a missing flag false, and a
\* timestamp that is missing or not a date is the time of the load.
C26_LegacyRecordsUpgraded ==
    (/\ lastOp.op \in {"startup", "restart"}
     /\ ~ParseFails(storage)
     /\ storage.present
     /\ Len(storage.sessions) > 0)
    => \A i \in 1..Len(storage.sessions) :
        LET record == storage.sessions[i]
            session == sessions[i]
        IN  /\ DOMAIN record \subseteq DOMAIN session
            /\ \A key \in DOMAIN record \ {"createdAt", "updatedAt"} :
                 session[key] = record[key]
            /\ Has(session, "tags") /\ session.tags = StoredOr(record, "tags", <<>>)
            /\ Has(session, "notes") /\ session.notes = StoredOr(record, "notes", <<>>)
            /\ Has(session, "isBookmarked") /\ session.isBookmarked = StoredOr(record, "isBookmarked", FALSE)
            /\ Has(session, "isFavorite") /\ session.isFavorite = StoredOr(record, "isFavorite", FALSE)
            /\ \A key \in {"createdAt", "updatedAt"} :
                 session[key] = IF Has(record, key) /\ record[key].kind = "iso"
                                THEN DateAt(record[key].t)
                                ELSE DateAt(now)

\* C27: resetting an option of the session shown removes that key and keeps
\* the other keys, the options are absent once no key is left, and setting an
\* option merges it into the options the session has; no other session
\* changes.
C27_OptionResetAndMerge ==
    [][LET i == FindIndex(sessions, currentSessionId)
           old == OptionsOf(sessions[i])
       IN  /\ \A key \in OptionKeys :
                HandleResetOption(key) =>
                    /\ IF DOMAIN old \ {key} = {}
                       THEN ~Has(sessions'[i], "options")
                       ELSE /\ Has(sessions'[i], "options")
                            /\ sessions'[i].options = Without(old, key)
                    /\ \A j \in 1..Len(sessions) : j # i => sessions'[j] = sessions[j]
           /\ \A key \in OptionKeys : \A value \in OptionValues(key) :
                HandleUpdateOption(key, value) =>
                    /\ Has(sessions'[i], "options")
                    /\ sessions'[i].options = Spread(old, key :> value)
                    /\ \A j \in 1..Len(sessions) : j # i => sessions'[j] = sessions[j]]_vars

\* C28: deleting the message at an index of the session shown removes exactly
\* that message: the messages before it keep their places, the messages after
\* it move up by one with their content, and no other session changes.
C28_DeleteRemovesExactlyOne ==
    [][\A i \in 1..Len(ChatSessionA.messages) :
        HandleDelete(i) =>
            LET k == FindIndex(sessions, currentSessionId)
                old == sessions[k].messages
                new == sessions'[k].messages
            IN  /\ Len(sessions') = Len(sessions)
                /\ Len(new) = Len(old) - 1
                /\ \A j \in 1..Len(new) : new[j] = IF j < i THEN old[j] ELSE old[j + 1]
                /\ \A j \in 1..Len(sessions) : j # k => sessions'[j] = sessions[j]]_vars

\* A message in the middle of a conversation of three has been deleted while
\* the other session keeps its two messages
C28_Witness ==
    /\ lastOp = Op("handleDelete", "a")
    /\ Len(sessions) = 2
    /\ sessions[1].messages = <<Message("user", <<"h","i">>), Message("user", <<"h","i">>)>>
    /\ Len(sessions[2].messages) = 2

\* C29: every turn that has started, by send or by regenerate, eventually
\* ends, and the step that ends it leaves isStreamingResponse false, whether
\* the turn succeeded, failed or was stopped, provided every awaited call of
\* the model server settles.
C29_TurnReturnsToIdle ==
    /\ \A t \in 1..(MaxTurns + MaxRegenerations) :
        (t \in DOMAIN turns) ~> (t \notin DOMAIN turns /\ ~isStreamingResponse)
    /\ [][\A t \in DOMAIN turns : t \notin DOMAIN turns' => ~isStreamingResponse']_vars

\* A send and a regenerate have both ended, the later one when the last of the
\* metadata generations it awaited returned, and the chat is idle
C29_Witness ==
    /\ turnCount = MaxTurns + MaxRegenerations
    /\ turns = <<>>
    /\ gens = <<>>
    /\ ~isStreamingResponse
    /\ lastOp.op \in {"generationDone", "generationFailed"}
    /\ aborted # {}

\* An id no session has
UnknownId == "zz"

\* What deleteSession(id) is to make of the sessions ss and the current id
\* cur: the sessions and current id after it are ss2 and cur2
DeleteSessionPost(ss, cur, id, ss2, cur2) ==
    LET kept == {j \in 1..Len(ss) : ss[j].id # id}
    IN  IF kept = {}
        THEN /\ Len(ss2) = 1
             /\ ss2[1].name = DEFAULT_SESSION_NAME
             /\ ss2[1].messages = <<>>
             /\ ss2[1].id \notin SessionIds(ss)
             /\ cur2 = ss2[1].id
        ELSE /\ Len(ss2) = Cardinality(kept)
             /\ IsSubsequence(ss2, ss)
             /\ \A j \in 1..Len(ss2) : ss2[j].id # id
             /\ cur2 = IF cur = id THEN ss2[1].id ELSE cur

C31_RegenerateReplacesInPlace ==
    [][/\ HandleRegenerate =>
            LET old == MessagesOf(sessions, currentSessionId)
                index == LastAssistantIndex(old)
            IN  IF index = 0
                THEN /\ sessions' = sessions
                     /\ turns' = turns
                     /\ isStreamingResponse' = isStreamingResponse
                ELSE /\ MessagesOf(sessions', currentSessionId)
                          = [old EXCEPT ![index] = Message("assistant", <<>>)]
                     /\ (turnCount + 1) \in DOMAIN turns'
                     /\ turns'[turnCount + 1].messagesToApi
                          = <<Message("system",
                                      sessions[FindIndex(sessions, currentSessionId)]
                                          .systemPrompt)>>
                            \o SubSeq(old, 1, index - 1)
       /\ \A t \in DOMAIN turns :
            (/\ turns[t].kind = "regenerate"
             /\ \/ \E chunk \in Chunks : ChunkArrives(t, chunk)
                \/ TransportFails(t, FALSE))
            => LET old == MessagesOf(sessions, turns[t].session.id)
                   new == MessagesOf(sessions', turns[t].session.id)
               IN  /\ Len(new) = Len(old)
                   /\ \A j \in 1..Len(old) : j # turns[t].index => new[j] = old[j]
                   /\ new[turns[t].index].role = "assistant"]_vars

\* C32: a send with a text of whitespace only, or in a session without a
\* model, changes nothing; any other send appends the user message and one
\* empty assistant message to the session shown, stores them, leaves the other
\* sessions alone and requests a reply for the system prompt followed by the
\* messages without the empty assistant message.
C32_SendStartsTurn ==
    [][\A text \in SendTexts :
        HandleSend(text) =>
            LET k == FindIndex(sessions, currentSessionId)
                session == sessions[k]
            IN  IF (\A i \in 1..Len(text) : IsWhitespace(text[i])) \/ ModelOf(session) = ""
                THEN /\ sessions' = sessions
                     /\ storage' = storage
                     /\ turns' = turns
                     /\ isStreamingResponse' = isStreamingResponse
                     /\ abortControllerRef' = abortControllerRef
                ELSE /\ Len(sessions') = Len(sessions)
                     /\ sessions'[k].messages
                          = session.messages \o <<Message("user", text),
                                                  Message("assistant", <<>>)>>
                     /\ \A j \in 1..Len(sessions) : j # k => sessions'[j] = sessions[j]
                     /\ storage' = Persisted(sessions', currentSessionId)
                     /\ isStreamingResponse'
                     /\ (turnCount + 1) \in DOMAIN turns' \ DOMAIN turns
                     /\ turns'[turnCount + 1].messagesToApi
                          = <<Message("system", session.systemPrompt)>>
                            \o session.messages \o <<Message("user", text)>>]_vars

\* A turn has started in the stored session while another session, added
\* without a model, is unchanged by the sends attempted in it
C32_Witness ==
    /\ lastOp = Op("handleSend", "a")
    /\ Len(sessions) = 2
    /\ \E j \in 1..2 : ModelOf(sessions[j]) = "" /\ sessions[j].messages = <<>>
    /\ Len(MessagesOf(sessions, "a")) = Len(TitledSession.messages) + 2
    /\ isStreamingResponse

\* C33: a generation of a name, of tags or of notes asked for a session that
\* has no messages or no model, or that is no longer in the store, sets no
\* marker, issues no request and changes no session.
C33_GenerationGuard ==
    [][/\ \A kind \in Kinds : \A i \in 1..Len(sessions) :
            (/\ GenerateFromSidebar(kind, i)
             /\ sessions[i].messages = <<>> \/ ModelOf(sessions[i]) = "")
            => /\ isGenerating' = isGenerating
               /\ gens' = gens
               /\ sessions' = sessions
               /\ storage' = storage
       /\ \A kind \in Kinds : \A i \in 1..Len(sessions) :
            (/\ GenerateFromSidebar(kind, i)
             /\ sessions[i].messages # <<>>
             /\ ModelOf(sessions[i]) # "")
            => /\ isGenerating'[kind] = sessions[i].id
               /\ Len(gens') = Len(gens) + 1
       /\ \A t \in DOMAIN turns :
            (/\ StreamEnds(t)
             /\ \A i \in 1..Len(sessions) : sessions[i].id # turns[t].session.id)
            => /\ isGenerating' = isGenerating
               /\ gens' = gens
               /\ sessions' = sessions]_vars

\* The generate button of the stored session without a model was pressed and
\* nothing is in flight, while the turn of a deleted session has ended without
\* asking for metadata
C33_Witness ==
    /\ lastOp = Op("generateFromSidebar", "b")
    /\ FindIndex(sessions, "b") # 0
    /\ ModelOf(sessions[FindIndex(sessions, "b")]) = ""
    /\ FindIndex(sessions, "a") = 0
    /\ turnCount = 1
    /\ turns = <<>>
    /\ gens = <<>>
    /\ isGenerating = NoGeneration

\* The name is the text without the whitespace around it
IsTrimOf(name, text) ==
    /\ Len(name) > 0
    /\ ~IsWhitespace(name[1])
    /\ ~IsWhitespace(name[Len(name)])
    /\ \E k \in 0..(Len(text) - Len(name)) :
        /\ SubSeq(text, k + 1, k + Len(name)) = name
        /\ \A j \in 1..k : IsWhitespace(text[j])
        /\ \A j \in (k + Len(name) + 1)..Len(text) : IsWhitespace(text[j])

\* C34: a rename to a name that is empty or only whitespace changes nothing,
\* name and updatedAt included; any other rename makes the session's name the
\* name without the whitespace around it and leaves the other sessions alone;
\* a generated name that is empty once cleaned changes nothing.
C34_RenameRule ==
    [][/\ \A i \in 1..Len(sessions) : \A content \in RenameInputs :
            HandleSaveName(i, content) =>
                IF \A j \in 1..Len(content) : IsWhitespace(content[j])
                THEN sessions' = sessions /\ storage' = storage
                ELSE /\ IsTrimOf(sessions'[i].name, content)
                     /\ Len(sessions') = Len(sessions)
                     /\ \A j \in 1..Len(sessions) : j # i => sessions'[j] = sessions[j]
       /\ \A g \in 1..Len(gens) : \A content \in NameReplies :
            (GenerateDone(g, content) /\ gens[g].kind = "name") =>
                LET cleaned == RemoveFinalDot(RemoveQuotes(content))
                    i == FindIndex(sessions, gens[g].sessionId)
                IN  IF \A j \in 1..Len(cleaned) : IsWhitespace(cleaned[j])
                    THEN sessions' = sessions
                    ELSE IsTrimOf(sessions'[i].name, cleaned)]_vars

\* The model's reply to a request for a name was empty once cleaned, after the
\* clock had advanced, and the session has kept its name and its updatedAt
C34_Witness ==
    /\ lastOp = Op("generationDone", "a")
    /\ now > 1
    /\ sessions[1].name = DEFAULT_SESSION_NAME
    /\ sessions[1].updatedAt = DateAt(1)
    /\ sessions[2].name = <<"N">>

\* What updateSession(id, fields) is to make of the sessions: the session at
\* index k has the fields given and the time of the call as updatedAt, its
\* other fields and the other sessions are as before
UpdateSessionPost(ss, ss2, k, fields, t) ==
    /\ Len(ss2) = Len(ss)
    /\ DOMAIN ss2[k] = DOMAIN ss[k] \cup DOMAIN fields
    /\ \A key \in DOMAIN fields : ss2[k][key] = fields[key]
    /\ ss2[k].updatedAt = DateAt(t)
    /\ \A key \in DOMAIN ss[k] \ (DOMAIN fields \cup {"updatedAt"}) : ss2[k][key] = ss[k][key]
    /\ \A j \in 1..Len(ss) : j # k => ss2[j] = ss[j]

\* C35: an update of the model or of the system prompt of the session shown
\* merges the field into that session and sets its updatedAt to the time of
\* the call; its other fields, the other sessions, their order and the current
\* id stay; a model name the registry lacks is stored all the same.
C35_UpdateSessionFrame ==
    [][LET k == FindIndex(sessions, currentSessionId)
       IN  /\ \A model \in ModelNames :
                UpdateSessionModel(model) =>
                    /\ UpdateSessionPost(sessions, sessions', k, [model |-> model], now)
                    /\ currentSessionId' = currentSessionId
                    /\ models' = models
           /\ \A text \in PromptTexts :
                UpdateSystemPrompt(text) =>
                    /\ UpdateSessionPost(sessions, sessions', k, [systemPrompt |-> text], now)
                    /\ currentSessionId' = currentSessionId]_vars

\* The second session has been given a model the registry lacks after the
\* clock advanced; the first session is as it was stored
C35_Witness ==
    /\ lastOp = Op("updateSessionModel", "b")
    /\ sessions[2].model = "m9"
    /\ \A i \in 1..Len(models) : models[i] # "m9"
    /\ sessions[2].updatedAt = DateAt(2)
    /\ sessions[1] = ChatSessionA

\* C36: a chunk commit of a streaming turn leaves the number of messages as it
\* is and changes no message other than an assistant message, also when
\* messages of the session were deleted since the turn started.
C36_ChunkCommitTouchesOwnMessage ==
    [][\A t \in DOMAIN turns : \A chunk \in Chunks :
        ChunkArrives(t, chunk) =>
            LET old == MessagesOf(sessions, turns[t].session.id)
                new == MessagesOf(sessions', turns[t].session.id)
            IN  /\ Len(new) = Len(old)
                /\ \A j \in 1..Len(old) :
                     new[j] # old[j] => old[j].role = "assistant" /\ new[j].role = "assistant"]_vars

\* C37: while a generation of a kind for a session is outstanding, the
\* in-flight marker of that kind is the id of that session.
C37_MarkerNamesOutstandingGeneration ==
    \A g \in 1..Len(gens) : isGenerating[gens[g].kind] = gens[g].sessionId

\* C38: isStreamingResponse is true in every state in which a turn that was
\* not stopped still awaits its transport call or its chunks.
C38_FlagCoversRunningTurn ==
    \A t \in DOMAIN turns :
        (t \notin aborted /\ turns[t].pc \in {"sending", "streaming"}) => isStreamingResponse

\* C39: a chunk commit, an error-marker commit or a metadata result that
\* arrives for a session that has been deleted changes no session and not the
\* current id; the deleted session does not come back.
C39_LateCommitForDeletedSession ==
    [][/\ \A t \in DOMAIN turns :
            (/\ turns[t].session.id \notin SessionIds(sessions)
             /\ \/ \E chunk \in Chunks : ChunkArrives(t, chunk)
                \/ StreamEnds(t)
                \/ \E isAbortError \in BOOLEAN : TransportFails(t, isAbortError))
            => sessions' = sessions /\ currentSessionId' = currentSessionId
       /\ \A g \in 1..Len(gens) :
            (/\ gens[g].sessionId \notin SessionIds(sessions)
             /\ \/ \E content \in GenContents : GenerateDone(g, content)
                \/ GenerateFailed(g))
            => sessions' = sessions /\ currentSessionId' = currentSessionId]_vars

\* A generated name has arrived for the first session after it was deleted:
\* only the second session is in the store, as it was stored
C39_Witness ==
    /\ lastOp = Op("generationDone", "a")
    /\ sessions = <<ChatSessionB>>
    /\ currentSessionId = "b"
    /\ turnCount = 1

\* C40: the list of sessions the sidebar displays is always the store's
\* sessions filtered by both the active quick filter and the current search
\* query; after a session mutation under an active query no session failing
\* the query is displayed.
C40_DisplayedIsBothFilters ==
    filtered = filterSessions(QuickFiltered(sessions, filter), parseSearchQuery(searchText))

\* The same with the quick filter left on all: the displayed sessions are
\* those matching the search query
C40_DisplayedMatchesQuery ==
    filter = "all" => filtered = filterSessions(sessions, parseSearchQuery(searchText))

====
